---- MODULE Spec2Model ----
(***************************************************************************)
(* Statement ingestion of the expense-tracker backend: the Row Normalizer  *)
(* (convert_to_standard_format, is_valid_transaction) of                   *)
(* app/services/transaction_service.py and the two users of the external   *)
(* text-classification call (ask_groq): the Category Classifier and the    *)
(* Source Identifier inside process_file.                                  *)
(*                                                                         *)
(* Text is modelled as a sequence of one-character strings, so that        *)
(* lower(), strip(), substring tests, CSV splitting, the regular           *)
(* expression substitution and float() are computed character by           *)
(* character as the code computes them.                                    *)
(***************************************************************************)
EXTENDS Integers, Sequences, FiniteSets, TLC

VARIABLES
    raw_csv,        \* convert_to_standard_format: the raw_csv argument (text)
    source,         \* convert_to_standard_format: the source argument (text)
    pc,             \* position inside convert_to_standard_format
    csv_lines,      \* raw_csv.splitlines()
    header_row,     \* index (0-based) of the header line, -1 when none
    columns,        \* df.columns: the column names, left to right
    raw_rows,       \* the data lines as read_csv split them, before NA handling
    df,             \* the parsed frame: one sequence of cells per row
    roles,          \* date_col, desc_col, ... as column positions (0 = None)
    row_i,          \* number of rows of df the loop has consumed
    standard_data,  \* the list of records built by the loop
    origin,         \* for each record, the position in df of the row it came from
    result,         \* the returned frame (sequence of records)
    raised,         \* TRUE when the except branch of the function was taken
    call,           \* ask_groq: the call in flight and its outcome
    category,       \* detect_category_for_transaction: the returned label
    upload,         \* process_file: the upload and the returned dictionary
    db,             \* the committed rows of the transactions table, in insertion order
    transactions,   \* the list of Transaction objects a function is building
    tx_i,           \* standard_format_to_transactions: rows of its frame consumed
    classified,     \* number of calls of detect_category_for_transaction made
    outcome,        \* process_and_save_transactions: the returned dictionary
    http,           \* upload_file: the response of the endpoint
    uploads,        \* number of requests the upload endpoint has received
    vouchers,       \* the committed rows of the vouchers table, by voucher id
    profiles,       \* the committed points of the user profiles, by user id
    user_vouchers,  \* the committed rows of the user_vouchers table
    sessions,       \* the voucher requests in progress, each with its own Session
    users,          \* the committed rows of the users table, by email
    utcnow,         \* datetime.utcnow(), in hours
    verified        \* verify_user: the calls made and the value the last one returned

convertVars == <<raw_csv, source, pc, csv_lines, header_row, columns, raw_rows,
                 df, roles, row_i, standard_data, origin, result, raised>>
groqVars == <<call, category, upload>>
storeVars == <<db, transactions, tx_i, classified, outcome, http, uploads>>
accountVars == <<vouchers, profiles, user_vouchers, sessions, users, utcnow, verified>>
vars == <<raw_csv, source, pc, csv_lines, header_row, columns, raw_rows, df,
          roles, row_i, standard_data, origin, result, raised, call, category, upload,
          db, transactions, tx_i, classified, outcome, http, uploads,
          vouchers, profiles, user_vouchers, sessions, users, utcnow, verified>>

----------------------------------------------------------------------------
(* Bounds of the model.                                                    *)

\* Most data lines that follow the header line of a preview.
MaxRows == 2
\* Most lines of a preview built from the lines of end-to-end scenario A.
MaxScenarioLines == 4

----------------------------------------------------------------------------
(* Python's str operations.                                                *)

UpperCase == <<"A","B","C","D","E","F","G","H","I","J","K","L","M",
               "N","O","P","Q","R","S","T","U","V","W","X","Y","Z">>
LowerCase == <<"a","b","c","d","e","f","g","h","i","j","k","l","m",
               "n","o","p","q","r","s","t","u","v","w","x","y","z">>
DigitChars == <<"0","1","2","3","4","5","6","7","8","9">>

NoText == <<>>

IsUpper(c) == \E k \in DOMAIN UpperCase : UpperCase[k] = c
LowerChar(c) ==
    IF IsUpper(c) THEN LowerCase[CHOOSE k \in DOMAIN UpperCase : UpperCase[k] = c]
    ELSE c

\* str.lower()
Lower(s) == [k \in 1..Len(s) |-> LowerChar(s[k])]

\* `t in s` for two strings
Contains(s, t) == \E k \in 0..(Len(s) - Len(t)) : SubSeq(s, k + 1, k + Len(t)) = t

\* any(term in s for term in terms)
ContainsAny(s, terms) == \E t \in terms : Contains(s, t)

IsSpace(c) == c \in {" ", "\t", "\n", "\r"}

RECURSIVE LStrip(_)
LStrip(s) == IF s # <<>> /\ IsSpace(Head(s)) THEN LStrip(Tail(s)) ELSE s

RECURSIVE RStrip(_)
RStrip(s) ==
    IF s # <<>> /\ IsSpace(s[Len(s)]) THEN RStrip(SubSeq(s, 1, Len(s) - 1)) ELSE s

\* str.strip()
Strip(s) == RStrip(LStrip(s))

IsDigit(c) == \E k \in DOMAIN DigitChars : DigitChars[k] = c
DigitVal(c) == (CHOOSE k \in DOMAIN DigitChars : DigitChars[k] = c) - 1

\* str.replace(old, '') for a one-character old
RemoveChar(s, old) == SelectSeq(s, LAMBDA c : c # old)

\* Position of the first occurrence of character c in s, 0 when there is none.
IndexOf(s, c) ==
    LET at == { k \in 1..Len(s) : s[k] = c } IN
    IF at = {} THEN 0 ELSE CHOOSE k \in at : \A j \in at : k <= j

\* str.splitlines(), for texts whose only line break is "\n"
RECURSIVE SplitLines(_)
SplitLines(t) ==
    IF t = <<>> THEN <<>>
    ELSE LET k == IndexOf(t, "\n") IN
         IF k = 0 THEN <<t>>
         ELSE <<SubSeq(t, 1, k - 1)>> \o SplitLines(SubSeq(t, k + 1, Len(t)))

\* '\n'.join(lines)
RECURSIVE JoinLines(_)
JoinLines(lines) ==
    IF lines = <<>> THEN <<>>
    ELSE IF Len(lines) = 1 THEN lines[1]
    ELSE lines[1] \o <<"\n">> \o JoinLines(Tail(lines))

----------------------------------------------------------------------------
(* pandas.read_csv(sep=',', engine='python', on_bad_lines='skip',          *)
(* dtype=str), as far as the previews of this model exercise it: fields    *)
(* are split at commas outside double quotes (a doubled quote inside a     *)
(* quoted field is one quote character), the first line names the          *)
(* columns, a line with fewer fields than the header is padded with        *)
(* missing values, and a field whose text is one of pandas' default        *)
(* missing-value markers is read as missing (dtype=str does not switch     *)
(* that off).  The header lines of the previews have distinct, non-empty   *)
(* names and no data line has more fields than its header, so the          *)
(* renaming of duplicate columns and the skipping of over-long lines do    *)
(* not arise.                                                              *)

\* A missing value (float NaN); no text equals it.
NaN == <<"<NaN>">>
notna(v) == v # NaN

\* the number of quote characters before position k
QuotesBefore(s, k) == Cardinality({ j \in 1..(k - 1) : s[j] = "\"" })

\* the commas outside quotes, in order
FieldBreaks(s) ==
    LET at == { k \in 1..Len(s) : s[k] = "," /\ QuotesBefore(s, k) % 2 = 0 }
    IN  [i \in 1..Cardinality(at) |->
            CHOOSE k \in at : Cardinality({ j \in at : j < k }) = i - 1]

\* A character of the line that belongs to the value of its field: any
\* character but a quote, and the second quote of a doubled quote inside a
\* quoted field.
IsFieldChar(s, k) ==
    \/ s[k] # "\""
    \/ k > 1 /\ s[k - 1] = "\"" /\ QuotesBefore(s, k) % 2 = 0

\* the value of the field between positions a and b of the line
FieldValue(s, a, b) ==
    IF \A k \in a..b : s[k] # "\"" THEN SubSeq(s, a, b)
    ELSE LET kept == SelectSeq([i \in 1..(b - a + 1) |-> a + i - 1],
                               LAMBDA k : IsFieldChar(s, k))
         IN  [i \in 1..Len(kept) |-> s[kept[i]]]

SplitCsv(line) ==
    LET breaks == FieldBreaks(line)
        n == Len(breaks)
    IN  [i \in 1..(n + 1) |->
            FieldValue(line,
                       IF i = 1 THEN 1 ELSE breaks[i - 1] + 1,
                       IF i = n + 1 THEN Len(line) ELSE breaks[i] - 1)]

\* pandas' default na_values (keep_default_na=True)
NaValues ==
    { <<>>, <<"#","N","/","A">>, <<"#","N","/","A"," ","N","/","A">>, <<"#","N","A">>, <<"-","1",".","#","I","N","D">>, <<"-","1",".","#","Q","N","A","N">>,
      <<"-","N","a","N">>, <<"-","n","a","n">>, <<"1",".","#","I","N","D">>, <<"1",".","#","Q","N","A","N">>, <<"<","N","A",">">>, <<"N","/","A">>,
      <<"N","A">>, <<"N","U","L","L">>, <<"N","a","N">>, <<"N","o","n","e">>, <<"n","/","a">>, <<"n","a","n">>, <<"n","u","l","l">> }

NaFilter(field) == IF field \in NaValues THEN NaN ELSE field

\* One data line as a row of `width` raw fields (short lines are padded).
RawRow(line, width) ==
    LET f == SplitCsv(line) IN
    [k \in 1..width |-> IF k <= Len(f) THEN f[k] ELSE <<>>]

\* The rows of the frame: NA handling, then df.dropna(how='all').
FrameRow(raw) == [k \in 1..Len(raw) |-> NaFilter(raw[k])]
IsAllNaN(row) == \A k \in 1..Len(row) : row[k] = NaN

ReadCsvColumns(lines) == SplitCsv(lines[1])
ReadCsvRaw(lines) ==
    LET width == Len(ReadCsvColumns(lines))
        all == [k \in 1..(Len(lines) - 1) |-> RawRow(lines[k + 1], width)]
    IN  SelectSeq(all, LAMBDA r : ~IsAllNaN(FrameRow(r)))
ReadCsvFrame(lines) ==
    LET raw == ReadCsvRaw(lines) IN [k \in 1..Len(raw) |-> FrameRow(raw[k])]

----------------------------------------------------------------------------
(* Header detection (convert_to_standard_format, the first loop).          *)

IsHeaderLine(line) ==
    LET line_lower == Lower(line) IN
    \/ /\ Contains(line_lower, <<"d","a","t","e">>)
       /\ \/ Contains(line_lower, <<"d","e","s","c","r","i","p","t","i","o","n">>)
          \/ Contains(line_lower, <<"n","a","r","r","a","t","i","o","n">>)
    \/ Contains(line_lower, <<"t","x","n">>)
    \/ Contains(line_lower, <<"t","r","a","n","s","a","c","t","i","o","n">>)

\* for idx, line in enumerate(csv_lines): if ...: header_row = idx; break
\* (k is the 1-based position; the result is the 0-based idx, or -1)
RECURSIVE HeaderScan(_, _)
HeaderScan(lines, k) ==
    IF k > Len(lines) THEN -1
    ELSE IF IsHeaderLine(lines[k]) THEN k - 1
    ELSE HeaderScan(lines, k + 1)

\* A scan that forgets the break: the last matching line wins.
RECURSIVE HeaderScanNoBreak(_, _)
HeaderScanNoBreak(lines, k) ==
    IF k > Len(lines) THEN -1
    ELSE LET later == HeaderScanNoBreak(lines, k + 1) IN
         IF later # -1 THEN later
         ELSE IF IsHeaderLine(lines[k]) THEN k - 1 ELSE -1

\* The same scan without the break.
DetectHeaderRowLast(lines) == HeaderScanNoBreak(lines, 1)

\* The same scan taking the first line when no line matches.
DetectHeaderRowOrFirst(lines) ==
    IF HeaderScan(lines, 1) = -1 /\ lines # <<>> THEN 0 ELSE HeaderScan(lines, 1)

DetectHeaderRow(lines) == HeaderScan(lines, 1)

----------------------------------------------------------------------------
(* Column roles (convert_to_standard_format, "Find columns based on        *)
(* source").  A role holds the position of its column, 0 for None.         *)

\* next((col for col in df.columns if any(term in col.lower() ...)), None)
RECURSIVE FirstColumnFrom(_, _, _)
FirstColumnFrom(cols, terms, k) ==
    IF k > Len(cols) THEN 0
    ELSE IF ContainsAny(Lower(cols[k]), terms) THEN k
    ELSE FirstColumnFrom(cols, terms, k + 1)
\* The last column with a matching name instead of the first.
LastColumn(cols, terms) ==
    LET matching == { k \in 1..Len(cols) : ContainsAny(Lower(cols[k]), terms) }
    IN  IF matching = {} THEN 0
        ELSE CHOOSE k \in matching : \A m \in matching : m <= k

FirstColumn(cols, terms) == FirstColumnFrom(cols, terms, 1)

EsewaRoles(cols) ==
    [ date    |-> FirstColumn(cols, {<<"d","a","t","e"," ","t","i","m","e">>}),
      desc    |-> FirstColumn(cols, {<<"d","e","s","c","r","i","p","t","i","o","n">>}),
      debit   |-> FirstColumn(cols, {<<"d","r",".">>}),
      credit  |-> FirstColumn(cols, {<<"c","r",".">>}),
      balance |-> FirstColumn(cols, {<<"b","a","l","a","n","c","e">>}),
      ref     |-> FirstColumn(cols, {<<"r","e","f","e","r","e","n","c","e"," ","c","o","d","e">>}) ]

KhaltiRoles(cols) ==
    [ date    |-> FirstColumn(cols, {<<"t","r","a","n","s","a","c","t","i","o","n"," ","d","a","t","e">>}),
      desc    |-> FirstColumn(cols, {<<"d","e","s","c","r","i","p","t","i","o","n">>}),
      debit   |-> FirstColumn(cols, {<<"a","m","o","u","n","t","(","-",")">>}),
      credit  |-> FirstColumn(cols, {<<"a","m","o","u","n","t","(","+",")">>}),
      balance |-> FirstColumn(cols, {<<"b","a","l","a","n","c","e">>}),
      ref     |-> FirstColumn(cols, {<<"t","r","a","n","s","a","c","t","i","o","n"," ","i","d">>}) ]

GenericRoles(cols) ==
    [ date    |-> FirstColumn(cols, {<<"d","a","t","e">>, <<"t","x","n"," ","d","a","t","e">>, <<"t","r","a","n","s","a","c","t","i","o","n"," ","d","a","t","e">>}),
      desc    |-> FirstColumn(cols, {<<"d","e","s","c","r","i","p","t","i","o","n">>, <<"n","a","r","r","a","t","i","o","n">>, <<"p","a","r","t","i","c","u","l","a","r","s">>}),
      debit   |-> FirstColumn(cols, {<<"d","r">>, <<"d","e","b","i","t">>, <<"w","i","t","h","d","r","a","w","a","l">>, <<"w","i","t","h","d","r","a","w">>}),
      credit  |-> FirstColumn(cols, {<<"c","r">>, <<"c","r","e","d","i","t">>, <<"d","e","p","o","s","i","t">>}),
      balance |-> FirstColumn(cols, {<<"b","a","l","a","n","c","e">>}),
      ref     |-> FirstColumn(cols, {<<"r","e","f","e","r","e","n","c","e">>, <<"r","e","f">>, <<"t","r","a","n","s","a","c","t","i","o","n"," ","i","d">>}) ]

\* The dispatch comparing the label as it is written, without lower().
ColumnRolesCaseSensitive(cols, src) ==
    IF src = <<"e","s","e","w","a">> THEN EsewaRoles(cols)
    ELSE IF src = <<"k","h","a","l","t","i">> THEN KhaltiRoles(cols)
    ELSE GenericRoles(cols)

ColumnRoles(cols, src) ==
    IF Lower(src) = <<"e","s","e","w","a">> THEN EsewaRoles(cols)
    ELSE IF Lower(src) = <<"k","h","a","l","t","i">> THEN KhaltiRoles(cols)
    ELSE GenericRoles(cols)

\* row[col] for a role; a role that is None has no cell
Cell(row, col) == IF col = 0 THEN NaN ELSE row[col]
\* `col and pd.notna(row[col])`
HasCell(row, col) == col # 0 /\ notna(row[col])

----------------------------------------------------------------------------
(* is_valid_transaction                                                    *)

DescriptionTerms ==
    { <<"t","o","t","a","l">>, <<"s","u","b","t","o","t","a","l">>, <<"o","p","e","n","i","n","g"," ","b","a","l","a","n","c","e">>, <<"c","l","o","s","i","n","g"," ","b","a","l","a","n","c","e">>,
      <<"s","u","m">>, <<"a","v","e","r","a","g","e">>, <<"b","a","l","a","n","c","e"," ","b","/","f">>, <<"b","a","l","a","n","c","e"," ","c","/","f">>,
      <<"s","t","a","t","e","m","e","n","t">>, <<"s","u","m","m","a","r","y">>, <<"p","e","r","i","o","d"," ","e","n","d">>, <<"p","e","r","i","o","d"," ","s","t","a","r","t">> }

AnyColumnTerms ==
    { <<"t","o","t","a","l">>, <<"b","a","l","a","n","c","e"," ","b","/","f">>, <<"o","p","e","n","i","n","g">>, <<"c","l","o","s","i","n","g">>,
      <<"s","t","a","t","e","m","e","n","t"," ","p","e","r","i","o","d">>, <<"s","u","m","m","a","r","y">> }

NoAmountTexts == { <<>>, <<"-">>, <<"0">>, <<"0",".","0">> }

StatusTokens == { <<"p","e","n","d","i","n","g">>, <<"c","o","m","p","l","e","t","e">>, <<"c","a","n","c","e","l","e","d">>, <<"t","i","m","e"," ","o","u","t">> }

\* str(value) of a cell: a missing value prints as 'nan'
Str(v) == IF v = NaN THEN <<"n","a","n">> ELSE v

\* position of the column named exactly `name`, 0 when the row has none
ColumnNamed(cols, name) ==
    IF \E k \in 1..Len(cols) : cols[k] = name
    THEN CHOOSE k \in 1..Len(cols) : cols[k] = name
    ELSE 0

HasAmountText(row, col) ==
    HasCell(row, col) /\ Strip(Str(row[col])) \notin NoAmountTexts

\* is_valid_transaction without its first check (the description test).
is_valid_transaction_NoDescCheck(row, cols, date_col, debit_col, credit_col, desc_col) ==
    LET anySummary ==
            \E k \in 1..Len(row) :
                notna(row[k]) /\ ContainsAny(Lower(Str(row[k])), AnyColumnTerms)
        has_date == date_col # 0 /\ notna(row[date_col])
        has_amount == HasAmountText(row, debit_col) \/ HasAmountText(row, credit_col)
        refCode == ColumnNamed(cols, <<"R","e","f","e","r","e","n","c","e"," ","C","o","d","e">>)
        statusOnly ==
            /\ refCode # 0
            /\ Lower(Str(row[refCode])) \in StatusTokens
            /\ ~has_amount
    IN  IF anySummary THEN FALSE
        ELSE IF statusOnly THEN FALSE
        ELSE has_date /\ has_amount

is_valid_transaction(row, cols, date_col, debit_col, credit_col, desc_col) ==
    LET descSummary ==
            /\ HasCell(row, desc_col)
            /\ ContainsAny(Lower(Str(row[desc_col])), DescriptionTerms)
        anySummary ==
            \E k \in 1..Len(row) :
                notna(row[k]) /\ ContainsAny(Lower(Str(row[k])), AnyColumnTerms)
        has_date == date_col # 0 /\ notna(row[date_col])
        has_amount == HasAmountText(row, debit_col) \/ HasAmountText(row, credit_col)
        refCode == ColumnNamed(cols, <<"R","e","f","e","r","e","n","c","e"," ","C","o","d","e">>)
        statusOnly ==
            /\ refCode # 0
            /\ Lower(Str(row[refCode])) \in StatusTokens
            /\ ~has_amount
    IN  IF descSummary THEN FALSE
        ELSE IF anySummary THEN FALSE
        ELSE IF statusOnly THEN FALSE
        ELSE has_date /\ has_amount

----------------------------------------------------------------------------
(* Amounts: re.sub(r'[^\d.]', '', s.replace(',', '')) and float().         *)
(* A float is kept as the decimal it was written as: n / 10^k, with no     *)
(* trailing zero in the fraction, so that equal numbers are equal values.  *)

RECURSIVE Decimal(_, _)
Decimal(n, k) ==
    IF k > 0 /\ n % 10 = 0 THEN Decimal(n \div 10, k - 1) ELSE [n |-> n, k |-> k]

Zero == [n |-> 0, k |-> 0]

\* re.sub(r'[^\d.]', '', s)
KeepDigitsAndDots(s) == SelectSeq(s, LAMBDA c : IsDigit(c) \/ c = ".")
\* The same substitution with the dot left out of the character class.
KeepDigitsOnly(s) == SelectSeq(s, LAMBDA c : IsDigit(c))

RECURSIVE DigitsValue(_, _)
DigitsValue(s, acc) ==
    IF s = <<>> THEN acc ELSE DigitsValue(Tail(s), acc * 10 + DigitVal(Head(s)))

\* float(s) from its parts: the sign, the text after it, that text without
\* its dots, and the place of the first dot
FloatOfParts(minus, body, digits, dot) ==
    IF digits = <<>> \/ Len(body) - Len(digits) > 1
       \/ \E k \in 1..Len(digits) : ~IsDigit(digits[k])
    THEN [ok |-> FALSE, val |-> Zero]
    ELSE [ok |-> TRUE,
          val |-> Decimal((IF minus THEN -1 ELSE 1) * DigitsValue(digits, 0),
                          IF dot = 0 THEN 0 ELSE Len(body) - dot)]

FloatOfBody(minus, body) ==
    FloatOfParts(minus, body, RemoveChar(body, "."), IndexOf(body, "."))

\* float(s) for a text of digits, dots and a leading minus sign: ValueError
\* (ok = FALSE) unless it has at least one digit and at most one dot.
PyFloat(s) ==
    FloatOfBody(s # <<>> /\ Head(s) = "-",
                IF s # <<>> /\ Head(s) = "-" THEN Tail(s) ELSE s)

\* The substitution with the minus sign added to the character class.
CleanAmountKeepSign(s) ==
    SelectSeq(RemoveChar(s, ","), LAMBDA c : IsDigit(c) \/ c \in {".", "-"})

\* The cleaning with the dot missing from the character class: r'[^\d]'.
CleanAmountNoDot(s) == KeepDigitsOnly(RemoveChar(s, ","))

CleanAmount(s) == KeepDigitsAndDots(RemoveChar(s, ","))

\* try: clean = re.sub(...); if clean: x = float(clean)   except: pass
ParseAmount(s) ==
    LET clean == CleanAmount(s) IN
    IF clean = <<>> THEN Zero
    ELSE IF PyFloat(clean).ok THEN PyFloat(clean).val
    ELSE Zero

PlaceholderTexts == { <<"-">>, <<"n","a","n">>, <<"N","a","N">> }

\* the dr / cr extraction
DrCrAmount(row, col) ==
    IF ~HasCell(row, col) THEN Zero
    ELSE LET s == Str(row[col]) IN
         IF s = <<>> \/ Strip(s) = <<>> \/ Strip(s) \in PlaceholderTexts THEN Zero
         ELSE ParseAmount(s)

\* the balance extraction (no placeholder list)
BalanceAmount(row, col) ==
    IF ~HasCell(row, col) THEN Zero
    ELSE LET s == Str(row[col]) IN
         IF s = <<>> \/ Strip(s) = <<>> THEN Zero
         ELSE ParseAmount(s)

----------------------------------------------------------------------------
(* Dates.  A date is <<year, month, day>>, a time <<hour, minute, second>>. *)
(* pandas.to_datetime is modelled on the layouts the previews hold: ISO    *)
(* dates and date-times, and a-b-yyyy or a/b/yyyy read month first when a  *)
(* can be a month and day first otherwise; every other text raises.        *)

RECURSIVE SplitAt(_, _, _)
SplitAt(rest, sep, cur) ==
    IF rest = <<>> THEN <<cur>>
    ELSE IF Head(rest) = sep THEN <<cur>> \o SplitAt(Tail(rest), sep, <<>>)
    ELSE SplitAt(Tail(rest), sep, Append(cur, Head(rest)))
Split(s, sep) == SplitAt(s, sep, <<>>)

AllDigits(s) == s # <<>> /\ \A k \in 1..Len(s) : IsDigit(s[k])
Number(s) == DigitsValue(s, 0)

IsLeap(y) == (y % 4 = 0 /\ y % 100 # 0) \/ y % 400 = 0
DaysIn(y, m) ==
    IF m = 2 THEN (IF IsLeap(y) THEN 29 ELSE 28)
    ELSE IF m \in {4, 6, 9, 11} THEN 30 ELSE 31
IsDate(y, m, d) == y >= 1 /\ m \in 1..12 /\ d >= 1 /\ d <= DaysIn(y, m)

NoDate == <<0, 0, 0>>
Midnight == <<0, 0, 0>>
Failed == [ok |-> FALSE, date |-> NoDate, time |-> Midnight]
Parsed(y, m, d, t) == [ok |-> TRUE, date |-> <<y, m, d>>, time |-> t]

\* Three numeric parts in the order given by `order` (a permutation of Y, m, d)
PartsDate(p, order, t) ==
    IF Len(p) # 3 \/ ~(\A k \in 1..3 : AllDigits(p[k])) THEN Failed
    ELSE LET iy == CHOOSE k \in 1..3 : order[k] = "Y"
             im == CHOOSE k \in 1..3 : order[k] = "m"
             id == CHOOSE k \in 1..3 : order[k] = "d"
         IN  IF /\ Len(p[iy]) = 4
                /\ Len(p[im]) \in 1..2
                /\ Len(p[id]) \in 1..2
                /\ IsDate(Number(p[iy]), Number(p[im]), Number(p[id]))
             THEN Parsed(Number(p[iy]), Number(p[im]), Number(p[id]), t)
             ELSE Failed

\* datetime.strptime(s, fmt) for '%Y-%m-%d', '%d-%m-%Y', '%d/%m/%Y'
Strptime(s, fmt) ==
    IF fmt = "%Y-%m-%d" THEN PartsDate(Split(s, "-"), <<"Y", "m", "d">>, Midnight)
    ELSE IF fmt = "%d-%m-%Y" THEN PartsDate(Split(s, "-"), <<"d", "m", "Y">>, Midnight)
    ELSE IF fmt = "%d/%m/%Y" THEN PartsDate(Split(s, "/"), <<"d", "m", "Y">>, Midnight)
    ELSE Failed

\* HH:MM:SS with an optional fraction of a second (dropped here)
ClockTime(s) ==
    LET whole == Split(s, ".")[1]
        p == Split(whole, ":")
    IN  IF /\ Len(p) = 3
           /\ \A k \in 1..3 : AllDigits(p[k]) /\ Len(p[k]) = 2
           /\ Number(p[1]) < 24 /\ Number(p[2]) < 60 /\ Number(p[3]) < 60
        THEN [ok |-> TRUE, time |-> <<Number(p[1]), Number(p[2]), Number(p[3])>>]
        ELSE [ok |-> FALSE, time |-> Midnight]

DateOnly(s, t) ==
    LET sep == IF Contains(s, <<"/">>) THEN "/" ELSE "-"
        p == Split(s, sep)
    IN  IF Len(p) = 3 /\ Len(p[1]) = 4 /\ sep = "-"
        THEN PartsDate(p, <<"Y", "m", "d">>, t)
        ELSE IF PartsDate(p, <<"m", "d", "Y">>, t).ok
        THEN PartsDate(p, <<"m", "d", "Y">>, t)
        ELSE PartsDate(p, <<"d", "m", "Y">>, t)

\* pd.to_datetime(s)
ToDatetime(s) ==
    LET words == Split(s, " ") IN
    IF Len(words) = 1 THEN DateOnly(s, Midnight)
    ELSE IF Len(words) = 2 /\ ClockTime(words[2]).ok
    THEN DateOnly(words[1], ClockTime(words[2]).time)
    ELSE Failed

\* datetime.now(): the ingestion moment
Now == [date |-> <<2025, 4, 12>>, time |-> <<9, 30, 0>>]

DateFormats == <<"None", "%Y-%m-%d", "%d-%m-%Y", "%d/%m/%Y">>

\* for fmt in [None, '%Y-%m-%d', '%d-%m-%Y', '%d/%m/%Y']: try ... break
RECURSIVE TryFormats(_, _)
TryFormats(s, k) ==
    IF k > Len(DateFormats) THEN Failed
    ELSE LET r == IF DateFormats[k] = "None" THEN ToDatetime(s)
                  ELSE Strptime(s, DateFormats[k])
         IN  IF r.ok THEN r ELSE TryFormats(s, k + 1)

\* The derivation taking the time of day from the parsed value in the
\* branch without ":" as well.
RowDateTimeParsedTime(row, date_col) ==
    IF ~HasCell(row, date_col) THEN Now
    ELSE LET date_str == Strip(Str(row[date_col]))
             parsed == IF Contains(date_str, <<":">>) THEN ToDatetime(date_str)
                       ELSE TryFormats(date_str, 1)
         IN  IF parsed.ok THEN [date |-> parsed.date, time |-> parsed.time] ELSE Now

\* transaction_date, transaction_time of a row
RowDateTime(row, date_col) ==
    IF ~HasCell(row, date_col) THEN Now
    ELSE LET date_str == Strip(Str(row[date_col])) IN
         IF Contains(date_str, <<":">>)
         THEN (IF ToDatetime(date_str).ok
               THEN [date |-> ToDatetime(date_str).date,
                     time |-> ToDatetime(date_str).time]
               ELSE Now)
         ELSE (IF TryFormats(date_str, 1).ok
               THEN [date |-> TryFormats(date_str, 1).date, time |-> Now.time]
               ELSE Now)

----------------------------------------------------------------------------
(* The row loop of convert_to_standard_format.                             *)

None == <<"<None>">>

NaNCount(row) == Cardinality({k \in 1..Len(row) : row[k] = NaN})

\* row.isna().sum() > len(row) * 0.7
TooManyNaN(row) == NaNCount(row) * 10 > Len(row) * 7

HeaderLabels == { <<"d","a","t","e">>, <<"t","r","a","n","s","a","c","t","i","o","n"," ","d","a","t","e">>, <<"t","x","n"," ","d","a","t","e">> }

IsRepeatedHeader(row, date_col) ==
    HasCell(row, date_col) /\ Lower(Str(row[date_col])) \in HeaderLabels

NonTransactionTerms ==
    { <<"t","o","t","a","l">>, <<"b","a","l","a","n","c","e"," ","b","/","f">>, <<"b","a","l","a","n","c","e"," ","c","/","f">>, <<"o","p","e","n","i","n","g">>, <<"c","l","o","s","i","n","g">>,
      <<"s","t","a","t","e","m","e","n","t"," ","g","e","n","e","r","a","t","e","d">>, <<"b","e","g","i","n","n","i","n","g">>, <<"e","n","d","i","n","g">>, <<"s","u","b","t","o","t","a","l">> }

\* description = str(row[desc_col]) if desc_col and pd.notna(row[desc_col]) else ""
Description(row, desc_col) ==
    IF HasCell(row, desc_col) THEN Str(row[desc_col]) ELSE <<>>

\* transaction_id
TransactionId(row, ref_col) ==
    IF HasCell(row, ref_col) THEN Strip(Str(row[ref_col])) ELSE None

\* The loop body without its two `dr == 0.0 and cr == 0.0` tests.
RowVerdictNoAmountCheck(row, cols, r) ==
    IF TooManyNaN(row) THEN "skip_nan"
    ELSE IF IsRepeatedHeader(row, r.date) THEN "skip_header"
    ELSE IF ~is_valid_transaction(row, cols, r.date, r.debit, r.credit, r.desc)
    THEN "skip_invalid"
    ELSE IF ContainsAny(Lower(Description(row, r.desc)), NonTransactionTerms)
    THEN "skip_description"
    ELSE "append"

\* The statement of the loop body that ends the row: one of the `continue`
\* statements, in the order of the code, or the append.
RowVerdict(row, cols, r) ==
    LET dr == DrCrAmount(row, r.debit)
        cr == DrCrAmount(row, r.credit)
    IN  IF TooManyNaN(row) THEN "skip_nan"
        ELSE IF IsRepeatedHeader(row, r.date) THEN "skip_header"
        ELSE IF ~is_valid_transaction(row, cols, r.date, r.debit, r.credit, r.desc)
        THEN "skip_invalid"
        ELSE IF dr = Zero /\ cr = Zero THEN "skip_no_amount"
        ELSE IF ContainsAny(Lower(Description(row, r.desc)), NonTransactionTerms)
        THEN "skip_description"
        ELSE IF /\ HasCell(row, r.ref)
                /\ Lower(TransactionId(row, r.ref)) \in StatusTokens
                /\ dr = Zero /\ cr = Zero
        THEN "skip_status"
        ELSE "append"

\* json.dumps(row.to_dict()): the row as column name / value pairs
RawData(row, cols) == [k \in 1..Len(row) |-> <<cols[k], row[k]>>]

\* the dictionary appended to standard_data
StandardRecord(row, cols, r, src) ==
    [ transaction_id   |-> TransactionId(row, r.ref),
      transaction_date |-> RowDateTime(row, r.date).date,
      transaction_time |-> RowDateTime(row, r.date).time,
      description      |-> Description(row, r.desc),
      dr               |-> DrCrAmount(row, r.debit),
      cr               |-> DrCrAmount(row, r.credit),
      balance          |-> BalanceAmount(row, r.balance),
      source           |-> src,
      raw_data         |-> RawData(row, cols) ]

\* the records of the rows of a frame from row k on, in row order
RECURSIVE RecordsFrom(_, _, _, _, _)
RecordsFrom(frame, cols, r, src, k) ==
    IF k > Len(frame) THEN <<>>
    ELSE IF RowVerdict(frame[k], cols, r) = "append"
    THEN <<StandardRecord(frame[k], cols, r, src)>> \o RecordsFrom(frame, cols, r, src, k + 1)
    ELSE RecordsFrom(frame, cols, r, src, k + 1)

\* convert_to_standard_format as a function of its arguments, when no
\* exception is raised: the steps of the actions below, composed
Convert(csv_data, src) ==
    LET all == SplitLines(csv_data)
        h   == DetectHeaderRow(all)
    IN  IF h = -1 THEN <<>>
        ELSE LET lines == SplitLines(JoinLines(SubSeq(all, h + 1, Len(all))))
                 cols  == ReadCsvColumns(lines)
             IN  RecordsFrom(ReadCsvFrame(lines), cols, ColumnRoles(cols, src), src, 1)

NoRoles == [date |-> 0, desc |-> 0, debit |-> 0, credit |-> 0, balance |-> 0, ref |-> 0]

----------------------------------------------------------------------------
(* The previews the model feeds to convert_to_standard_format.             *)

HeaderBank      == <<"D","a","t","e",",","D","e","s","c","r","i","p","t","i","o","n",",","D","e","b","i","t",",","C","r","e","d","i","t",",","B","a","l","a","n","c","e">>
HeaderNarration == <<"T","x","n"," ","D","a","t","e",",","N","a","r","r","a","t","i","o","n",",","W","i","t","h","d","r","a","w","a","l",",","D","e","p","o","s","i","t",",","B","a","l","a","n","c","e">>
HeaderEsewa     == <<"R","e","f","e","r","e","n","c","e"," ","C","o","d","e",",","D","a","t","e"," ","T","i","m","e",",","D","e","s","c","r","i","p","t","i","o","n",",","D","r",".",",","C","r",".">>
MetaLine        == <<"G","e","n","e","r","a","t","e","d"," ","b","y",",","9","8","1","9","4","9","2","5","8","1">>

RowGrocery  == <<"2","0","2","4","-","0","1","-","0","5",",","G","r","o","c","e","r","y"," ","S","t","o","r","e",",","5","0","0",",","0",",","1","5","0","0">>
RowSalary   == <<"2","0","2","4","-","0","1","-","0","6",",","S","a","l","a","r","y",",","0",",","2","0","0","0","0",",","2","1","5","0","0">>
RowTotal    == <<"T","o","t","a","l",",",",",",",",">>
RowDashes   == <<"2","0","2","4","-","0","1","-","0","7",",","O","r","d","e","r"," ","2","4",",","-",",","-",",","1","5","0","0">>
RowNaDate   == <<"N","/","A",",","T","a","x","i",",","5","0","0",",","0",",","1","5","0","0">>
RowBadDate  == <<"u","n","k","n","o","w","n",",","T","a","x","i",",","\"","$","1",",","2","3","4",".","5","0","\"",",","0",",","1",".","2",".","3">>
RowOpening  == <<"2","0","2","4","-","0","1","-","0","8",",","O","p","e","n","i","n","g"," ","B","a","l","a","n","c","e"," ","b","r","o","u","g","h","t"," ","f","o","r","w","a","r","d",",","1","0","0",",","0",",","1","0","0">>
RowSummer   == <<"2","0","2","4","-","0","1","-","0","9",",","S","u","m","m","e","r"," ","S","a","l","e",",","2","5","0",",","0",",","1","2","5","0">>

RowEsewaDr      == <<"0","V","O","J","M","B","I",",","2","0","2","5","-","0","4","-","1","1"," ","1","0",":","1","5",":","1","3",".","0",",","F","u","n","d"," ","T","r","a","n","s","f","e","r","r","e","d",",","3","0",".","0",",","0",".","0">>
RowEsewaCr      == <<"0","V","O","J","M","B","X",",","2","0","2","5","-","0","4","-","1","2"," ","0","8",":","0","0",":","0","0",".","0",",","M","o","n","e","y"," ","R","e","c","e","i","v","e","d",",","0",".","0",",","1","5","0",".","5">>
RowEsewaPending == <<"P","E","N","D","I","N","G",",","2","0","2","5","-","0","4","-","1","1"," ","1","0",":","2","0",":","0","0",".","0",",","T","o","p","u","p",",","0",".","0",",","0",".","0">>

BankRows == { RowGrocery, RowSalary, RowTotal, RowDashes, RowNaDate, RowBadDate,
              RowOpening, RowSummer }
EsewaRows == { RowEsewaDr, RowEsewaCr, RowEsewaPending }

Headers == { HeaderBank, HeaderNarration, HeaderEsewa }
RowsOf(h) == IF h = HeaderEsewa THEN EsewaRows ELSE BankRows
Prefixes == { <<>>, <<MetaLine>>, <<MetaLine, HeaderNarration>> }
Sources == { <<"U","n","k","n","o","w","n">>, <<"e","S","e","w","a">> }

SeqsUpTo(S, n) == UNION { [1..k -> S] : k \in 0..n }

\* a header line, lines before it and data lines after it
PreviewsWith(h) ==
    { p \o <<h>> \o rows : p \in Prefixes, rows \in SeqsUpTo(RowsOf(h), MaxRows) }
HeaderPreviews == UNION { PreviewsWith(h) : h \in Headers }

\* no header line at all
HeaderlessPreviews ==
    { <<MetaLine>> \o rows : rows \in SeqsUpTo({RowGrocery, RowTotal}, MaxRows) }

Previews == HeaderPreviews \cup HeaderlessPreviews

\* the lines of end-to-end scenario A, in any order and number
ScenarioA == <<HeaderBank, RowGrocery, RowSalary, RowTotal>>
ScenarioPreviews ==
    SeqsUpTo({HeaderBank, RowGrocery, RowSalary, RowTotal}, MaxScenarioLines)
\* labels without a mapping of their own
GenericSources == { <<"U","n","k","n","o","w","n">>, <<"G","l","o","b","a","l"," ","I","M","E">> }

----------------------------------------------------------------------------
(* convert_to_standard_format as a state machine.                          *)

Idle == [state |-> "idle"]

GroqIdle ==
    /\ call = Idle
    /\ category = None
    /\ upload = Idle

\* process_and_save_transactions has not returned
NoOutcome == [state |-> "none", success |-> FALSE, message |-> "", count |-> 0]

StoreIdle ==
    /\ db = <<>>
    /\ transactions = <<>>
    /\ tx_i = 0
    /\ classified = 0
    /\ outcome = NoOutcome
    /\ http = [status |-> 0, success |-> FALSE, stored |-> 0, detail |-> ""]
    /\ uploads = 0

\* no voucher, no user and no request: the account tables are empty
NoCalls == [calls |-> 0, email |-> "", code |-> "", returned |-> FALSE]
AccountIdle ==
    /\ vouchers = <<>>
    /\ profiles = <<>>
    /\ user_vouchers = {}
    /\ sessions = <<>>
    /\ users = <<>>
    /\ utcnow = 0
    /\ verified = NoCalls

ConvertInit(previews, sources) ==
    /\ raw_csv \in { JoinLines(p) : p \in previews }
    /\ source \in sources
    /\ pc = "start"
    /\ csv_lines = <<>>
    /\ header_row = -1
    /\ columns = <<>>
    /\ raw_rows = <<>>
    /\ df = <<>>
    /\ roles = NoRoles
    /\ row_i = 0
    /\ standard_data = <<>>
    /\ origin = <<>>
    /\ result = <<>>
    /\ raised = FALSE

Init == ConvertInit(Previews, Sources) /\ GroqIdle /\ StoreIdle /\ AccountIdle

ScenarioInit == ConvertInit(ScenarioPreviews, GenericSources) /\ GroqIdle /\ StoreIdle /\ AccountIdle

\* csv_lines = raw_csv.splitlines(); the header loop finds a header
DetectHeader ==
    /\ pc = "start"
    /\ DetectHeaderRow(SplitLines(raw_csv)) # -1
    /\ csv_lines' = SplitLines(raw_csv)
    /\ header_row' = DetectHeaderRow(SplitLines(raw_csv))
    /\ pc' = "read"
    /\ UNCHANGED <<raw_csv, source, columns, raw_rows, df, roles, row_i,
                   standard_data, origin, result, raised>>
    /\ UNCHANGED groqVars
    /\ UNCHANGED storeVars
    /\ UNCHANGED accountVars

\* header_row == -1: the empty frame is returned
NoHeaderFound ==
    /\ pc = "start"
    /\ DetectHeaderRow(SplitLines(raw_csv)) = -1
    /\ csv_lines' = SplitLines(raw_csv)
    /\ header_row' = -1
    /\ result' = <<>>
    /\ pc' = "done"
    /\ UNCHANGED <<raw_csv, source, columns, raw_rows, df, roles, row_i,
                   standard_data, origin, raised>>
    /\ UNCHANGED groqVars
    /\ UNCHANGED storeVars
    /\ UNCHANGED accountVars

\* transaction_csv, pd.read_csv, df.dropna(how='all') and the column roles
ReadCsv ==
    /\ pc = "read"
    /\ LET transaction_csv ==
               JoinLines(SubSeq(csv_lines, header_row + 1, Len(csv_lines)))
           lines == SplitLines(transaction_csv)
       IN  /\ columns' = ReadCsvColumns(lines)
           /\ raw_rows' = ReadCsvRaw(lines)
           /\ df' = ReadCsvFrame(lines)
           /\ roles' = ColumnRoles(ReadCsvColumns(lines), source)
    /\ row_i' = 0
    /\ standard_data' = <<>>
    /\ origin' = <<>>
    /\ pc' = "rows"
    /\ UNCHANGED <<raw_csv, source, csv_lines, header_row, result, raised>>
    /\ UNCHANGED groqVars
    /\ UNCHANGED storeVars
    /\ UNCHANGED accountVars

\* one pass of the loop body that ends in a `continue`
SkipRow ==
    /\ pc = "rows"
    /\ row_i < Len(df)
    /\ RowVerdict(df[row_i + 1], columns, roles) # "append"
    /\ row_i' = row_i + 1
    /\ UNCHANGED <<raw_csv, source, pc, csv_lines, header_row, columns, raw_rows,
                   df, roles, standard_data, origin, result, raised>>
    /\ UNCHANGED groqVars
    /\ UNCHANGED storeVars
    /\ UNCHANGED accountVars

\* one pass of the loop body that reaches standard_data.append
AppendRow ==
    /\ pc = "rows"
    /\ row_i < Len(df)
    /\ RowVerdict(df[row_i + 1], columns, roles) = "append"
    /\ standard_data' =
           Append(standard_data, StandardRecord(df[row_i + 1], columns, roles, source))
    /\ origin' = Append(origin, row_i + 1)
    /\ row_i' = row_i + 1
    /\ UNCHANGED <<raw_csv, source, pc, csv_lines, header_row, columns, raw_rows,
                   df, roles, result, raised>>
    /\ UNCHANGED groqVars
    /\ UNCHANGED storeVars
    /\ UNCHANGED accountVars

\* an exception raised inside the loop body reaches the `except Exception`
\* of the function: the records built so far are dropped and the empty
\* frame is returned
RowException ==
    /\ pc = "rows"
    /\ row_i < Len(df)
    /\ raised' = TRUE
    /\ result' = <<>>
    /\ pc' = "done"
    /\ UNCHANGED <<raw_csv, source, csv_lines, header_row, columns, raw_rows, df,
                   roles, row_i, standard_data, origin>>
    /\ UNCHANGED groqVars
    /\ UNCHANGED storeVars
    /\ UNCHANGED accountVars

\* standard_df = pd.DataFrame(standard_data); return standard_df
ReturnFrame ==
    /\ pc = "rows"
    /\ row_i = Len(df)
    /\ result' = standard_data
    /\ pc' = "done"
    /\ UNCHANGED <<raw_csv, source, csv_lines, header_row, columns, raw_rows, df,
                   roles, row_i, standard_data, origin, raised>>
    /\ UNCHANGED groqVars
    /\ UNCHANGED storeVars
    /\ UNCHANGED accountVars

ConvertNext ==
    \/ DetectHeader
    \/ NoHeaderFound
    \/ ReadCsv
    \/ SkipRow
    \/ AppendRow
    \/ RowException
    \/ ReturnFrame

Next == ConvertNext

Spec == Init /\ [][Next]_vars

\* the same function on the previews made of the lines of scenario A
SpecScenario == ScenarioInit /\ [][Next]_vars

----------------------------------------------------------------------------
(* ask_groq: one HTTP exchange with the text-classification service.       *)
(* What the service does is the environment's choice:                      *)
(*   reply          status 200, choices[0].message.content is `text`       *)
(*   null_content   status 200, choices[0].message.content is null         *)
(*   http_error     a status other than 200 with body `text`               *)
(*   network_error  the connection fails, str(e) is `text`                 *)
(*   timeout        the request times out, str(e) is `text`                *)
(*   malformed      status 200 but response.json() or the subscripts       *)
(*                  raise, str(e) is `text`                                *)

Response(kind, status, text) == [kind |-> kind, status |-> status, text |-> text]

Take(s, n) == SubSeq(s, 1, IF Len(s) < n THEN Len(s) ELSE n)

\* the value ask_groq returns
ask_groq(resp) ==
    IF resp.kind = "reply" THEN resp.text
    ELSE IF resp.kind = "null_content" THEN None
    ELSE IF resp.kind = "http_error"
    THEN <<"E","r","r","o","r"," ","c","a","l","l","i","n","g"," ","G","r","o","q"," ","A","P","I"," ","(">> \o resp.status \o <<")",":"," ">> \o Take(resp.text, 500)
    ELSE <<"E","r","r","o","r",":"," ">> \o resp.text

\* The call did not produce a classification.
CallFailed(resp) == resp.kind # "reply"

----------------------------------------------------------------------------
(* detect_category_for_transaction                                         *)

Other == <<"O","t","h","e","r">>

\* try: response = await ask_groq(...); return response.strip()
\* except Exception: return "Other"    (None.strip() raises AttributeError)
detect_category_for_transaction(resp) ==
    LET response == ask_groq(resp) IN
    IF response = None THEN Other ELSE Strip(response)

----------------------------------------------------------------------------
(* json.loads, for the texts of this model: objects, strings without       *)
(* escapes, null and unsigned integers; anything else raises.              *)

JsonFail == [ok |-> FALSE, next |-> 0, type |-> "none", text |-> <<>>, members |-> <<>>]
JsonOk(next, type, text, members) ==
    [ok |-> TRUE, next |-> next, type |-> type, text |-> text, members |-> members]

RECURSIVE SkipSpace(_, _)
SkipSpace(s, k) == IF k <= Len(s) /\ IsSpace(s[k]) THEN SkipSpace(s, k + 1) ELSE k

\* position of the quote that closes the string whose text starts at k
RECURSIVE StringEnd(_, _)
StringEnd(s, k) ==
    IF k > Len(s) THEN 0
    ELSE IF s[k] = "\"" THEN k
    ELSE IF s[k] = "\\" THEN 0
    ELSE StringEnd(s, k + 1)

JsonString(s, k) ==
    LET e == StringEnd(s, k + 1) IN
    IF e = 0 THEN JsonFail ELSE JsonOk(e + 1, "string", SubSeq(s, k + 1, e - 1), <<>>)

RECURSIVE DigitsEnd(_, _)
DigitsEnd(s, k) == IF k <= Len(s) /\ IsDigit(s[k]) THEN DigitsEnd(s, k + 1) ELSE k

RECURSIVE JsonValue(_, _)
RECURSIVE JsonMembers(_, _, _)

JsonValue(s, k) ==
    IF k > Len(s) THEN JsonFail
    ELSE IF s[k] = "\"" THEN JsonString(s, k)
    ELSE IF s[k] = "{"
    THEN LET j == SkipSpace(s, k + 1) IN
         IF j <= Len(s) /\ s[j] = "}" THEN JsonOk(j + 1, "object", <<>>, <<>>)
         ELSE JsonMembers(s, j, <<>>)
    ELSE IF k + 3 <= Len(s) /\ SubSeq(s, k, k + 3) = <<"n","u","l","l">>
    THEN JsonOk(k + 4, "null", <<>>, <<>>)
    ELSE IF IsDigit(s[k])
    THEN JsonOk(DigitsEnd(s, k), "number", SubSeq(s, k, DigitsEnd(s, k) - 1), <<>>)
    ELSE JsonFail

\* the members of an object from the key at k on; acc holds those read so far
JsonMembers(s, k, acc) ==
    LET key == IF k <= Len(s) /\ s[k] = "\"" THEN JsonString(s, k) ELSE JsonFail IN
    IF ~key.ok THEN JsonFail
    ELSE LET colon == SkipSpace(s, key.next) IN
    IF colon > Len(s) \/ s[colon] # ":" THEN JsonFail
    ELSE LET v == JsonValue(s, SkipSpace(s, colon + 1)) IN
    IF ~v.ok THEN JsonFail
    ELSE LET e == SkipSpace(s, v.next)
             all == Append(acc, [key |-> key.text, value |-> v])
         IN  IF e > Len(s) THEN JsonFail
             ELSE IF s[e] = "}" THEN JsonOk(e + 1, "object", <<>>, all)
             ELSE IF s[e] = "," THEN JsonMembers(s, SkipSpace(s, e + 1), all)
             ELSE JsonFail

\* json.loads(s): ok = FALSE stands for JSONDecodeError
JsonLoads(s) ==
    LET v == JsonValue(s, SkipSpace(s, 1)) IN
    IF v.ok /\ SkipSpace(s, v.next) = Len(s) + 1 THEN v ELSE JsonFail

\* the Python value of a parsed JSON value: a str, None, or the value itself
PyValue(v) ==
    IF v.type = "string" THEN v.text
    ELSE IF v.type = "null" THEN None
    ELSE [type |-> v.type, text |-> v.text, members |-> v.members]

\* dict.get(key, default): the last member with that key wins
RECURSIVE DictGetFrom(_, _, _, _)
DictGetFrom(members, key, default, k) ==
    IF k = 0 THEN default
    ELSE IF members[k].key = key THEN PyValue(members[k].value)
    ELSE DictGetFrom(members, key, default, k - 1)
DictGet(members, key, default) == DictGetFrom(members, key, default, Len(members))

----------------------------------------------------------------------------
(* The Source Identifier inside process_file.                              *)

Unknown == <<"U","n","k","n","o","w","n">>

RECURSIVE LastIndexFrom(_, _, _)
LastIndexFrom(s, c, k) ==
    IF k = 0 THEN 0 ELSE IF s[k] = c THEN k ELSE LastIndexFrom(s, c, k - 1)
LastIndexOf(s, c) == LastIndexFrom(s, c, Len(s))

\* re.search(r'\{[\s\S]*\}', text).group(0): from the first "{" to the last
\* "}" of the text; <<>> when there is no match
JsonMatch(text) ==
    LET a == IndexOf(text, "{")
        b == LastIndexOf(text, "}")
    IN  IF a # 0 /\ b > a THEN SubSeq(text, a, b) ELSE <<>>

\* try: ... source = analysis_data.get("source", "Unknown") / "Unknown"
\* except Exception: source = "Unknown"   (re.search(None) raises TypeError)
IdentifySource(groq_response) ==
    IF groq_response = None THEN Unknown
    ELSE LET m == JsonMatch(groq_response) IN
         IF m = <<>> THEN Unknown
         ELSE IF ~JsonLoads(m).ok THEN Unknown
         ELSE DictGet(JsonLoads(m).members, <<"s","o","u","r","c","e">>, Unknown)

----------------------------------------------------------------------------
(* detect_format                                                           *)

EndsWith(s, suffix) ==
    Len(s) >= Len(suffix) /\ SubSeq(s, Len(s) - Len(suffix) + 1, Len(s)) = suffix

ExcelTypes == { "application/vnd.ms-excel",
                "application/vnd.openxmlformats-officedocument.spreadsheetml.sheet" }

\* detect_format with its last statement returning "pdf".
detect_format_NeverUnsupported(file_name, content_type) ==
    LET filename == Lower(file_name) IN
    IF content_type \in ExcelTypes THEN "excel"
    ELSE IF EndsWith(filename, <<".","x","l","s">>) \/ EndsWith(filename, <<".","x","l","s","x">>) THEN "excel"
    ELSE "pdf"

\* detect_format with the extension checked before the content type.
detect_format_ExtensionFirst(file_name, content_type) ==
    LET filename == Lower(file_name) IN
    IF EndsWith(filename, <<".","p","d","f">>) THEN "pdf"
    ELSE IF EndsWith(filename, <<".","x","l","s">>) \/ EndsWith(filename, <<".","x","l","s","x">>) THEN "excel"
    ELSE IF content_type = "application/pdf" THEN "pdf"
    ELSE IF content_type \in ExcelTypes THEN "excel"
    ELSE "unsupported"

detect_format(file_name, content_type) ==
    LET filename == Lower(file_name) IN
    IF content_type = "application/pdf" THEN "pdf"
    ELSE IF content_type \in ExcelTypes THEN "excel"
    ELSE IF EndsWith(filename, <<".","p","d","f">>) THEN "pdf"
    ELSE IF EndsWith(filename, <<".","x","l","s">>) \/ EndsWith(filename, <<".","x","l","s","x">>) THEN "excel"
    ELSE "unsupported"

----------------------------------------------------------------------------
(* The inputs of the classification model.                                 *)

ContentTypes == { "application/pdf", "application/vnd.ms-excel",
                  "text/csv", "application/octet-stream" }
FileNames == { <<"s","t","a","t","e","m","e","n","t",".","p","d","f">>, <<"S","t","a","t","e","m","e","n","t",".","X","L","S","X">>, <<"r","e","p","o","r","t",".","x","l","s">>, <<"n","o","t","e","s",".","t","x","t">> }

ExtractedPreviews ==
    { JoinLines(<<HeaderBank, RowGrocery>>),
      JoinLines(<<HeaderEsewa, RowEsewaDr>>),
      JoinLines(<<HeaderBank, RowGrocery, RowTotal, RowOpening, RowDashes>>) }

Descriptions == { <<"G","r","o","c","e","r","y"," ","S","t","o","r","e">>, <<"S","a","l","a","r","y">> }

Replies ==
    { Response("reply", <<"2","0","0">>, <<"{","\"","s","o","u","r","c","e","\"",":"," ","\"","e","S","e","w","a","\"","}">>),
      Response("reply", <<"2","0","0">>, <<"H","e","r","e"," ","i","s"," ","t","h","e"," ","r","e","s","u","l","t",":"," ","{","\"","s","o","u","r","c","e","\"",":"," ","\"","K","h","a","l","t","i","\"",","," ","\"","c","o","n","f","i","d","e","n","c","e","\"",":"," ","\"","H","I","G","H","\"","}">>),
      Response("reply", <<"2","0","0">>, <<"{","\"","c","o","n","f","i","d","e","n","c","e","\"",":"," ","\"","L","O","W","\"","}">>),
      Response("reply", <<"2","0","0">>, <<"{","\"","s","o","u","r","c","e","\"",":"," ","\"","e","S","e","w","a","\"","}"," ","o","r"," ","{","\"","s","o","u","r","c","e","\"",":"," ","\"","K","h","a","l","t","i","\"","}">>),
      Response("reply", <<"2","0","0">>, <<"I","t"," ","l","o","o","k","s"," ","l","i","k","e"," ","a","n"," ","e","S","e","w","a"," ","s","t","a","t","e","m","e","n","t">>),
      Response("reply", <<"2","0","0">>, <<"F","o","o","d"," ","&"," ","D","i","n","i","n","g">>),
      Response("reply", <<"2","0","0">>, <<" ","S","a","l","a","r","y"," ">>) }

Failures ==
    { Response("null_content", <<"2","0","0">>, <<>>),
      Response("http_error", <<"4","2","9">>,
               <<"{","\"","e","r","r","o","r","\"",":","{","\"","m","e","s","s","a","g","e","\"",":","\"","R","a","t","e"," ","l","i","m","i","t"," ","r","e","a","c","h","e","d","\"",",","\"","t","y","p","e","\"",":","\"","t","o","k","e","n","s","\"","}","}">>),
      Response("http_error", <<"5","0","0">>, <<"I","n","t","e","r","n","a","l"," ","S","e","r","v","e","r"," ","E","r","r","o","r">>),
      Response("http_error", <<"5","0","2">>, <<"<","h","t","m","l",">","B","a","d"," ","G","a","t","e","w","a","y"," ","{","<","/","h","t","m","l",">">>),
      Response("http_error", <<"5","0","3">>, <<"{","\"","s","o","u","r","c","e","\"",":"," ","\"","m","a","i","n","t","e","n","a","n","c","e","\"","}">>),
      Response("network_error", <<"0","0","0">>, <<"C","a","n","n","o","t"," ","c","o","n","n","e","c","t"," ","t","o"," ","h","o","s","t"," ","a","p","i",".","g","r","o","q",".","c","o","m",":","4","4","3">>),
      Response("timeout", <<"0","0","0">>, <<>>),
      Response("malformed", <<"2","0","0">>, <<"'","c","h","o","i","c","e","s","'">>),
      Response("malformed", <<"2","0","0">>, <<"E","x","p","e","c","t","i","n","g"," ","v","a","l","u","e",":"," ","l","i","n","e"," ","1"," ","c","o","l","u","m","n"," ","1"," ","(","c","h","a","r"," ","0",")">>) }

Responses == Replies \cup Failures

----------------------------------------------------------------------------
(* process_file and detect_category_for_transaction as a state machine.    *)

Received(name, ctype) ==
    [ state |-> "received", filename |-> name, content_type |-> ctype,
      format |-> "", csv_data |-> None, success |-> FALSE, message |-> "",
      data |-> None, source |-> None ]

\* convert_to_standard_format is not running
ConvertIdle ==
    /\ raw_csv = <<>>
    /\ source = <<>>
    /\ pc = "idle"
    /\ csv_lines = <<>>
    /\ header_row = -1
    /\ columns = <<>>
    /\ raw_rows = <<>>
    /\ df = <<>>
    /\ roles = NoRoles
    /\ row_i = 0
    /\ standard_data = <<>>
    /\ origin = <<>>
    /\ result = <<>>
    /\ raised = FALSE

GroqInit ==
    /\ ConvertIdle
    /\ StoreIdle
    /\ AccountIdle
    /\ call = Idle
    /\ category = None
    /\ upload \in {Idle} \cup { Received(n, c) : n \in FileNames, c \in ContentTypes }

\* process_file: file_format == "unsupported"
RejectUnsupported ==
    /\ upload.state = "received"
    /\ detect_format(upload.filename, upload.content_type) = "unsupported"
    /\ upload' = [upload EXCEPT !.state = "returned",
                                !.format = "unsupported",
                                !.success = FALSE,
                                !.message = "Unsupported file format",
                                !.data = None]
    /\ UNCHANGED <<call, category>>
    /\ UNCHANGED convertVars
    /\ UNCHANGED storeVars
    /\ UNCHANGED accountVars

\* process_file: process_pdf / process_excel return the CSV text
Extract ==
    /\ upload.state = "received"
    /\ detect_format(upload.filename, upload.content_type) # "unsupported"
    /\ \E text \in ExtractedPreviews :
           upload' = [upload EXCEPT
                          !.state = "identifying",
                          !.format = detect_format(upload.filename, upload.content_type),
                          !.csv_data = text]
    /\ call' = [state |-> "pending", caller |-> "process_file"]
    /\ UNCHANGED category
    /\ UNCHANGED convertVars
    /\ UNCHANGED storeVars
    /\ UNCHANGED accountVars

\* process_file: process_pdf / process_excel raise; the outer except answers
ExtractFails ==
    /\ upload.state = "received"
    /\ detect_format(upload.filename, upload.content_type) # "unsupported"
    /\ upload' = [upload EXCEPT
                      !.state = "returned",
                      !.format = detect_format(upload.filename, upload.content_type),
                      !.success = FALSE,
                      !.message = "Error processing file",
                      !.data = None]
    /\ UNCHANGED <<call, category>>
    /\ UNCHANGED convertVars
    /\ UNCHANGED storeVars
    /\ UNCHANGED accountVars

\* ask_groq returns to its caller
GroqReturns ==
    /\ call.state = "pending"
    /\ \E resp \in Responses :
           call' = [state |-> "returned", caller |-> call.caller,
                    response |-> resp, value |-> ask_groq(resp)]
    /\ UNCHANGED <<category, upload>>
    /\ UNCHANGED convertVars
    /\ UNCHANGED storeVars
    /\ UNCHANGED accountVars

\* process_file: the reply is parsed and the dictionary returned
ReturnSource ==
    /\ upload.state = "identifying"
    /\ call.state = "returned"
    /\ call.caller = "process_file"
    /\ upload' = [upload EXCEPT
                      !.state = "returned",
                      !.success = TRUE,
                      !.message = "Successfully processed file",
                      !.data = upload.csv_data,
                      !.source = IdentifySource(call.value)]
    /\ UNCHANGED <<call, category>>
    /\ UNCHANGED convertVars
    /\ UNCHANGED storeVars
    /\ UNCHANGED accountVars

\* detect_category_for_transaction calls ask_groq
Categorize ==
    /\ upload = Idle
    /\ call = Idle
    /\ \E d \in Descriptions :
           call' = [state |-> "pending", caller |-> "detect_category", description |-> d]
    /\ UNCHANGED <<category, upload>>
    /\ UNCHANGED convertVars
    /\ UNCHANGED storeVars
    /\ UNCHANGED accountVars

\* detect_category_for_transaction returns
ReturnCategory ==
    /\ call.state = "returned"
    /\ call.caller = "detect_category"
    /\ category = None
    /\ category' = detect_category_for_transaction(call.response)
    /\ UNCHANGED <<call, upload>>
    /\ UNCHANGED convertVars
    /\ UNCHANGED storeVars
    /\ UNCHANGED accountVars

GroqNext ==
    \/ RejectUnsupported
    \/ Extract
    \/ ExtractFails
    \/ GroqReturns
    \/ ReturnSource
    \/ Categorize
    \/ ReturnCategory

SpecGroq == GroqInit /\ [][GroqNext]_vars

----------------------------------------------------------------------------
(* upload_file (routes/file_upload.py): the upload endpoint.  It calls     *)
(* process_file and then reads the returned CSV text itself, with          *)
(* pd.read_csv(StringIO(csv_data)): the first line names the columns.      *)

\* Most requests the endpoint receives in one behaviour.
MaxUploads == 2

\* the character U+20B9 (Indian rupee sign), one character of a text
RupeeSign == "<U+20B9>"

\* NaT, what pd.to_datetime gives for a missing value (NaT.date() is NaT)
NaT == <<"<NaT>">>

\* the branch of the if/elif chain that a column takes
ColumnClass(col) ==
    LET col_lower == Lower(Str(col)) IN
    IF ContainsAny(col_lower, { <<"d","a","t","e">>, <<"t","r","a","n","s","a","c","t","i","o","n"," ","d","a","t","e">>, <<"v","a","l","u","e"," ","d","a","t","e">> })
    THEN "date"
    ELSE IF ContainsAny(col_lower, { <<"d","e","s","c","r","i","p","t","i","o","n">>, <<"n","a","r","r","a","t","i","o","n">>,
                                     <<"p","a","r","t","i","c","u","l","a","r","s">>, <<"d","e","t","a","i","l","s">> })
    THEN "description"
    ELSE IF ContainsAny(col_lower, { <<"d","e","b","i","t">>, <<"w","i","t","h","d","r","a","w","a","l">>, <<"d","r">>, <<"o","u","t","f","l","o","w">> })
    THEN "debit"
    ELSE IF ContainsAny(col_lower, { <<"c","r","e","d","i","t">>, <<"d","e","p","o","s","i","t">>, <<"c","r">>, <<"i","n","f","l","o","w">> })
    THEN "credit"
    ELSE IF Contains(col_lower, <<"b","a","l","a","n","c","e">>) THEN "balance"
    ELSE "none"

IsDigitsAndDots(s) == \A k \in 1..Len(s) : IsDigit(s[k]) \/ s[k] = "."

\* float(s) for a stripped text: an optional sign, digits and at most one
\* dot; every other text of this model raises ValueError (ok = FALSE)
SignedFloat(s) ==
    IF s = <<>> THEN [ok |-> FALSE, val |-> Zero]
    ELSE LET signed == Head(s) \in {"-", "+"}
             body == IF signed THEN Tail(s) ELSE s
             f == PyFloat(body)
         IN  IF ~IsDigitsAndDots(body) \/ ~f.ok THEN [ok |-> FALSE, val |-> Zero]
             ELSE IF Head(s) = "-" THEN [ok |-> TRUE, val |-> Decimal(0 - f.val.n, f.val.k)]
             ELSE f

\* str(value).replace(',', '').replace(RupeeSign, '').strip(), then
\* float(...) if the text is not empty else 0.0; except: 0.0
UploadAmount(value) ==
    LET s == Strip(RemoveChar(RemoveChar(Str(value), ","), RupeeSign)) IN
    IF s = <<>> THEN Zero
    ELSE IF SignedFloat(s).ok THEN SignedFloat(s).val
    ELSE Zero

NoFields ==
    [transaction_date |-> None, description |-> <<>>, dr_amount |-> Zero,
     cr_amount |-> Zero, balance |-> Zero]

\* for col in row.index: ...   (columns k..Len(cols), fields so far in acc)
RECURSIVE UploadFields(_, _, _, _)
UploadFields(cols, row, k, acc) ==
    IF k > Len(cols) THEN acc
    ELSE LET class == ColumnClass(cols[k])
             value == row[k]
             present == notna(value) /\ value # <<>>
             next ==
                 IF class = "date"
                 THEN (IF value = NaN THEN [acc EXCEPT !.transaction_date = NaT]
                       ELSE IF ToDatetime(value).ok
                       THEN [acc EXCEPT !.transaction_date = ToDatetime(value).date]
                       ELSE acc)
                 ELSE IF class = "description"
                 THEN [acc EXCEPT !.description = IF notna(value) THEN Str(value) ELSE <<>>]
                 ELSE IF class = "debit" /\ present
                 THEN [acc EXCEPT !.dr_amount = UploadAmount(value)]
                 ELSE IF class = "credit" /\ present
                 THEN [acc EXCEPT !.cr_amount = UploadAmount(value)]
                 ELSE IF class = "balance" /\ present
                 THEN [acc EXCEPT !.balance = UploadAmount(value)]
                 ELSE acc
         IN  UploadFields(cols, row, k + 1, next)

\* file.filename.split('.')[0] if '.' in file.filename else file.filename
FileStem(filename) == Split(filename, ".")[1]

\* Transaction(...) as upload_file builds it
UploadTransaction(cols, row, filename) ==
    LET f == UploadFields(cols, row, 1, NoFields) IN
    [ transaction_id   |-> None,
      transaction_date |-> f.transaction_date,
      transaction_time |-> Now.time,
      description      |-> f.description,
      category         |-> None,
      dr               |-> f.dr_amount,
      cr               |-> f.cr_amount,
      source           |-> FileStem(filename),
      balance          |-> f.balance,
      raw_data         |-> RawData(row, cols) ]

\* the rows of the frame from position k on, each one appended unless its
\* transaction_date is None
RECURSIVE UploadRowsFrom(_, _, _, _)
UploadRowsFrom(cols, frame, filename, k) ==
    IF k > Len(frame) THEN <<>>
    ELSE LET t == UploadTransaction(cols, frame[k], filename)
             rest == UploadRowsFrom(cols, frame, filename, k + 1)
         IN  IF t.transaction_date = None THEN rest ELSE <<t>> \o rest

\* df = pd.read_csv(StringIO(csv_data)); df.dropna(how='all'); the row loop
UploadTransactions(csv_data, filename) ==
    LET lines == SplitLines(csv_data) IN
    UploadRowsFrom(ReadCsvColumns(lines), ReadCsvFrame(lines), filename, 1)

\* the files the endpoint is sent
UploadFiles ==
    { <<<<"s","t","a","t","e","m","e","n","t",".","p","d","f">>, "application/pdf">>,
      <<<<"r","e","p","o","r","t",".","x","l","s">>, "application/octet-stream">>,
      <<<<"n","o","t","e","s",".","t","x","t">>, "text/csv">> }

\* the endpoint has not answered yet
NoAnswer == [status |-> 0, success |-> FALSE, stored |-> 0, detail |-> ""]

UploadInit ==
    /\ ConvertIdle
    /\ GroqIdle
    /\ StoreIdle
    /\ AccountIdle

Answered == upload = Idle \/ http.status # 0

\* db.query(User)...first() is None: 404
UserNotFound ==
    /\ Answered
    /\ uploads < MaxUploads
    /\ uploads' = uploads + 1
    /\ upload' = Idle
    /\ call' = Idle
    /\ http' = [status |-> 404, success |-> FALSE, stored |-> 0, detail |-> "User not found"]
    /\ UNCHANGED <<category, db, transactions, tx_i, classified, outcome>>
    /\ UNCHANGED convertVars
    /\ UNCHANGED accountVars

\* the user exists: process_file(file) is called
AcceptUpload ==
    /\ Answered
    /\ uploads < MaxUploads
    /\ uploads' = uploads + 1
    /\ \E f \in UploadFiles : upload' = Received(f[1], f[2])
    /\ call' = Idle
    /\ http' = NoAnswer
    /\ UNCHANGED <<category, db, transactions, tx_i, classified, outcome>>
    /\ UNCHANGED convertVars
    /\ UNCHANGED accountVars

\* not result["success"]: HTTPException(422) is raised inside the try and the
\* `except Exception` of the endpoint answers 500; whether str(e) holds the
\* message depends on the installed framework version
RespondRejected ==
    /\ upload.state = "returned"
    /\ http.status = 0
    /\ ~upload.success
    /\ \E carried \in BOOLEAN :
           http' = [status |-> 500, success |-> FALSE, stored |-> 0,
                    detail |-> IF carried THEN upload.message ELSE ""]
    /\ UNCHANGED <<call, category, upload, db, transactions, tx_i, classified,
                   outcome, uploads>>
    /\ UNCHANGED convertVars
    /\ UNCHANGED accountVars

\* the rows are read; db.add_all(transactions); db.commit() and the summary,
\* or the answer that no valid transaction was found
StoreRows ==
    /\ upload.state = "returned"
    /\ http.status = 0
    /\ upload.success
    /\ LET built == UploadTransactions(upload.data, upload.filename) IN
       /\ transactions' = built
       /\ db' = db \o built
       /\ http' = IF built # <<>>
                  THEN [status |-> 200, success |-> TRUE, stored |-> Len(built),
                        detail |-> "Successfully processed transactions"]
                  ELSE [status |-> 200, success |-> FALSE, stored |-> 0,
                        detail |-> "No valid transactions found in the file"]
    /\ UNCHANGED <<call, category, upload, tx_i, classified, outcome, uploads>>
    /\ UNCHANGED convertVars
    /\ UNCHANGED accountVars

\* pd.read_csv or db.commit raises: the `except Exception` answers 500
StoreFails ==
    /\ upload.state = "returned"
    /\ http.status = 0
    /\ upload.success
    /\ http' = [status |-> 500, success |-> FALSE, stored |-> 0,
                detail |-> "Error processing file"]
    /\ UNCHANGED <<call, category, upload, db, transactions, tx_i, classified,
                   outcome, uploads>>
    /\ UNCHANGED convertVars
    /\ UNCHANGED accountVars

UploadNext ==
    \/ UserNotFound
    \/ AcceptUpload
    \/ RejectUnsupported
    \/ Extract
    \/ ExtractFails
    \/ GroqReturns
    \/ ReturnSource
    \/ RespondRejected
    \/ StoreRows
    \/ StoreFails

SpecUpload == UploadInit /\ [][UploadNext]_vars

----------------------------------------------------------------------------
(* process_and_save_transactions and standard_format_to_transactions       *)
(* (services/transaction_service.py).  The first calls                     *)
(* convert_to_standard_format, whose steps are the actions above; the      *)
(* second awaits detect_category_for_transaction once per row of the       *)
(* returned frame, one call at a time.                                     *)

\* Most data lines of a preview handed to process_and_save_transactions.
MaxSaveRows == 3

HeaderParticulars == <<"D","a","t","e",",","P","a","r","t","i","c","u","l","a","r","s",",","D","e","b","i","t",",","C","r","e","d","i","t",",","B","a","l","a","n","c","e">>

SaveLines == <<HeaderNarration, HeaderParticulars, MetaLine>>
SavePreviews ==
    { <<SaveLines[h]>> \o rows :
          h \in 1..Len(SaveLines),
          rows \in SeqsUpTo({RowGrocery, RowSalary, RowTotal}, MaxSaveRows) }

\* what the classification service answers to the calls of one batch
SaveResponses ==
    { Response("reply", <<"2","0","0">>, <<"F","o","o","d"," ","&"," ","D","i","n","i","n","g">>),
      Response("reply", <<"2","0","0">>, <<" ","S","a","l","a","r","y"," ">>),
      Response("reply", <<"2","0","0">>, <<"G","r","o","c","e","r","i","e","s">>),
      Response("timeout", <<"0","0","0">>, <<>>) }

SaveInit == ConvertInit(SavePreviews, {Unknown}) /\ GroqIdle /\ StoreIdle /\ AccountIdle

\* std_df.empty
IsEmptyFrame(frame) == frame = <<>>

\* The list with the new object put first instead of last.
PrependTransaction(list, t) == <<t>> \o list

\* transactions.append(transaction)
AppendTransaction(list, t) == Append(list, t)

\* Only the first object of the batch reaches the table.
CommittedFirstOnly(table, batch) == table \o SubSeq(batch, 1, 1)

\* db.add_all(transactions); db.commit()
Committed(table, batch) == table \o batch

\* Transaction(...) as standard_format_to_transactions builds it
SaveTransaction(row, label) ==
    [ transaction_id   |-> row.transaction_id,
      transaction_date |-> row.transaction_date,
      transaction_time |-> row.transaction_time,
      description      |-> row.description,
      category         |-> label,
      dr               |-> row.dr,
      cr               |-> row.cr,
      source           |-> row.source,
      balance          |-> row.balance,
      raw_data         |-> row.raw_data ]

Returned(success, message, count) ==
    [state |-> "returned", success |-> success, message |-> message, count |-> count]

\* std_df.empty: the early return
SaveEmpty ==
    /\ pc = "done"
    /\ IsEmptyFrame(result)
    /\ outcome' = Returned(FALSE, "No valid transactions found in file", 0)
    /\ pc' = "returned"
    /\ UNCHANGED <<raw_csv, source, csv_lines, header_row, columns, raw_rows, df,
                   roles, row_i, standard_data, origin, result, raised>>
    /\ UNCHANGED groqVars
    /\ UNCHANGED <<db, transactions, tx_i, classified, http, uploads>>
    /\ UNCHANGED accountVars

\* standard_format_to_transactions is entered
BeginTransactions ==
    /\ pc = "done"
    /\ ~IsEmptyFrame(result)
    /\ transactions' = <<>>
    /\ tx_i' = 0
    /\ pc' = "classify"
    /\ UNCHANGED <<raw_csv, source, csv_lines, header_row, columns, raw_rows, df,
                   roles, row_i, standard_data, origin, result, raised>>
    /\ UNCHANGED groqVars
    /\ UNCHANGED <<db, classified, outcome, http, uploads>>
    /\ UNCHANGED accountVars

\* The call made for every row of the frame read, dropped or not.
CallClassifierEveryRow ==
    /\ pc = "classify"
    /\ tx_i < Len(df)
    /\ call = Idle
    /\ call' = [state |-> "pending", caller |-> "standard_format_to_transactions"]
    /\ classified' = classified + 1
    /\ UNCHANGED convertVars
    /\ UNCHANGED <<category, upload, db, transactions, tx_i, outcome, http, uploads>>
    /\ UNCHANGED accountVars

\* category = await detect_category_for_transaction(description): the call
CallClassifier ==
    /\ pc = "classify"
    /\ tx_i < Len(result)
    /\ call = Idle
    /\ call' = [state |-> "pending", caller |-> "standard_format_to_transactions"]
    /\ classified' = classified + 1
    /\ UNCHANGED convertVars
    /\ UNCHANGED <<category, upload, db, transactions, tx_i, outcome, http, uploads>>
    /\ UNCHANGED accountVars

\* the call returns, the Transaction is built and appended
ClassifierReturns ==
    /\ pc = "classify"
    /\ call # Idle
    /\ call.state = "pending"
    /\ \E resp \in SaveResponses :
           transactions' =
               AppendTransaction(transactions,
                   SaveTransaction(result[tx_i + 1], detect_category_for_transaction(resp)))
    /\ tx_i' = tx_i + 1
    /\ call' = Idle
    /\ UNCHANGED convertVars
    /\ UNCHANGED <<category, upload, db, classified, outcome, http, uploads>>
    /\ UNCHANGED accountVars

\* an exception inside the try of the loop body: the row is skipped
TransactionFails ==
    /\ pc = "classify"
    /\ call # Idle
    /\ call.state = "pending"
    /\ tx_i' = tx_i + 1
    /\ call' = Idle
    /\ UNCHANGED convertVars
    /\ UNCHANGED <<category, upload, db, transactions, classified, outcome, http, uploads>>
    /\ UNCHANGED accountVars

\* `if not transactions`: nothing to save
NoTransactions ==
    /\ pc = "classify"
    /\ tx_i = Len(result)
    /\ transactions = <<>>
    /\ outcome' = Returned(FALSE, "No valid financial transactions found in file", 0)
    /\ pc' = "returned"
    /\ UNCHANGED <<raw_csv, source, csv_lines, header_row, columns, raw_rows, df,
                   roles, row_i, standard_data, origin, result, raised>>
    /\ UNCHANGED groqVars
    /\ UNCHANGED <<db, transactions, tx_i, classified, http, uploads>>
    /\ UNCHANGED accountVars

\* db.add_all(transactions); db.commit(); the success dictionary
Commit ==
    /\ pc = "classify"
    /\ tx_i = Len(result)
    /\ transactions # <<>>
    /\ db' = Committed(db, transactions)
    /\ outcome' = Returned(TRUE, "Successfully saved transactions", Len(transactions))
    /\ pc' = "returned"
    /\ UNCHANGED <<raw_csv, source, csv_lines, header_row, columns, raw_rows, df,
                   roles, row_i, standard_data, origin, result, raised>>
    /\ UNCHANGED groqVars
    /\ UNCHANGED <<transactions, tx_i, classified, http, uploads>>
    /\ UNCHANGED accountVars

\* db.add_all or db.commit raises: db.rollback() and the error dictionary
CommitFails ==
    /\ pc = "classify"
    /\ tx_i = Len(result)
    /\ transactions # <<>>
    /\ outcome' = Returned(FALSE, "Error", 0)
    /\ pc' = "returned"
    /\ UNCHANGED <<raw_csv, source, csv_lines, header_row, columns, raw_rows, df,
                   roles, row_i, standard_data, origin, result, raised>>
    /\ UNCHANGED groqVars
    /\ UNCHANGED <<db, transactions, tx_i, classified, http, uploads>>
    /\ UNCHANGED accountVars

SaveNext ==
    \/ ConvertNext
    \/ SaveEmpty
    \/ BeginTransactions
    \/ CallClassifier
    \/ ClassifierReturns
    \/ TransactionFails
    \/ NoTransactions
    \/ Commit
    \/ CommitFails

SpecSave == SaveInit /\ [][SaveNext]_vars

----------------------------------------------------------------------------
(* convert_to_standard_format on statements whose descriptions hold the    *)
(* words of its last filter.                                               *)

\* Most data lines of such a statement.
MaxFilterRows == 2

RowVending == <<"2","0","2","4","-","0","1","-","1","0",",","V","e","n","d","i","n","g"," ","m","a","c","h","i","n","e",",","5","0",",","0",",","1","2","0","0">>
RowRefund  == <<"2","0","2","4","-","0","1","-","1","1",",","C","a","r","d"," ","r","e","f","u","n","d",",","-","5","0","0",",","(","2","5",".","5","0",")",",","-","1","2","0","0">>

FilterPreviews ==
    { <<first>> \o rows :
          first \in {HeaderNarration, MetaLine},
          rows \in SeqsUpTo({RowGrocery, RowVending, RowRefund, RowTotal}, MaxFilterRows) }

FilterInit == ConvertInit(FilterPreviews, GenericSources) /\ GroqIdle /\ StoreIdle /\ AccountIdle

SpecFilter == FilterInit /\ [][ConvertNext]_vars

----------------------------------------------------------------------------
(* convert_to_standard_format under the source labels of the two wallets,  *)
(* in several spellings, and under labels without a mapping.               *)

\* Most data lines of such a statement.
MaxDispatchRows == 2

HeaderKhalti == <<"T","r","a","n","s","a","c","t","i","o","n"," ","D","a","t","e",",","D","e","s","c","r","i","p","t","i","o","n",",","A","m","o","u","n","t","(","-",")",",","A","m","o","u","n","t","(","+",")",",","B","a","l","a","n","c","e",",","T","r","a","n","s","a","c","t","i","o","n"," ","I","D">>
RowKhalti    == <<"2","0","2","5","-","0","4","-","1","1",",","B","i","l","l"," ","P","a","y","m","e","n","t",",","1","2","0",".","0",",","0",".","0",",","8","8","0",".","0",",","K","1","2","3">>

DispatchSources ==
    { <<"e","S","e","w","a">>, <<"E","S","E","W","A">>, <<"K","h","a","l","t","i">>, <<"k","h","a","l","t","i">>, <<"U","n","k","n","o","w","n">>, <<"e","S","e","w","a"," ","W","a","l","l","e","t">> }

DispatchPreviews ==
    { <<HeaderEsewa>> \o rows : rows \in SeqsUpTo({RowEsewaDr, RowEsewaCr}, MaxDispatchRows) }
    \cup { <<HeaderKhalti>> \o rows : rows \in SeqsUpTo({RowKhalti}, MaxDispatchRows) }
    \cup { <<HeaderBank>> \o rows : rows \in SeqsUpTo({RowGrocery}, MaxDispatchRows) }
    \cup { <<MetaLine>> }

DispatchInit == ConvertInit(DispatchPreviews, DispatchSources) /\ GroqIdle /\ StoreIdle /\ AccountIdle

SpecDispatch == DispatchInit /\ [][ConvertNext]_vars

----------------------------------------------------------------------------
(* purchase_voucher and redeem_voucher (services/voucher_service.py) with  *)
(* Voucher.is_valid (models/voucher.py).  Every request runs in a Session  *)
(* of its own: it reads committed rows when its queries run, keeps what it *)
(* read in its objects, and writes the attributes it changed, with the     *)
(* values it computed, when it commits.  Requests interleave between their *)
(* queries and their commit.                                               *)

\* Most requests in progress at a time.
MaxRequests == 2
\* Largest usage_limit of a voucher.
MaxLimit == 2

UserIds == {"u1"}
VoucherIds == {"v1", "v2"}
\* the ids a request may carry: "u0" and "v0" are in no table
RequestUsers == UserIds \cup {"u0"}
RequestVouchers == VoucherIds \cup {"v0"}
StartPoints == [u \in UserIds |-> 4]

NoRow == [is_active |-> FALSE, usage_limit |-> 0, usage_count |-> 0, points_cost |-> 0]
NoRequest ==
    [state |-> "idle", kind |-> "", user |-> "", voucher |-> "", seen |-> NoRow,
     points |-> 0, success |-> FALSE, message |-> ""]

VoucherInit ==
    /\ ConvertIdle
    /\ GroqIdle
    /\ StoreIdle
    /\ \E a \in BOOLEAN :
           vouchers = [v \in VoucherIds |->
                          IF v = "v1"
                          THEN [is_active |-> a, usage_limit |-> MaxLimit,
                                usage_count |-> 0, points_cost |-> 3]
                          ELSE [is_active |-> TRUE, usage_limit |-> 1,
                                usage_count |-> 0, points_cost |-> 2]]
    /\ profiles = StartPoints
    /\ user_vouchers = {}
    /\ sessions = [r \in 1..MaxRequests |-> NoRequest]
    /\ users = <<>>
    /\ utcnow = 0
    /\ verified = NoCalls

\* Voucher.is_valid; in_window: now is between valid_from and valid_until
is_valid(row, in_window) ==
    /\ row.is_active
    /\ in_window
    /\ row.usage_count < row.usage_limit

\* The check that lets every purchase through.
AlwaysEnoughPoints(points, cost) == TRUE

\* user.profile.points < voucher.points_cost, negated
HasEnoughPoints(points, cost) == points >= cost

\* The increment done by the database on the stored value.
IncrementStored(seen_count, stored_count) == stored_count + 1

\* voucher.usage_count += 1, flushed at commit: the value computed from the
\* attribute the Session loaded is written
WrittenCount(seen_count, stored_count) == seen_count + 1

\* the dictionary a failing call returns; the Session has nothing to write
Failing(req, message) ==
    [NoRequest EXCEPT !.state = "returned", !.kind = req.kind, !.message = message]

\* purchase_voucher_endpoint and purchase_voucher: the user query
PurchaseStart(r) ==
    /\ sessions[r].state = "idle"
    /\ \E u \in RequestUsers, v \in RequestVouchers :
           LET req == [NoRequest EXCEPT !.kind = "purchase", !.user = u, !.voucher = v]
           IN  sessions' = [sessions EXCEPT ![r] =
                   IF u \notin DOMAIN profiles THEN Failing(req, "User not found")
                   ELSE [req EXCEPT !.state = "user"]]
    /\ UNCHANGED <<vouchers, profiles, user_vouchers, users, utcnow, verified>>
    /\ UNCHANGED <<convertVars, groqVars, storeVars>>

\* get_voucher_by_id and voucher.is_valid()
PurchaseLoadVoucher(r) ==
    /\ sessions[r].state = "user"
    /\ LET req == sessions[r] IN
       \E in_window \in BOOLEAN :
           sessions' = [sessions EXCEPT ![r] =
               IF req.voucher \notin DOMAIN vouchers THEN Failing(req, "Voucher not found")
               ELSE IF ~is_valid(vouchers[req.voucher], in_window)
               THEN Failing(req, "Voucher is not available")
               ELSE [req EXCEPT !.state = "voucher", !.seen = vouchers[req.voucher]]]
    /\ UNCHANGED <<vouchers, profiles, user_vouchers, users, utcnow, verified>>
    /\ UNCHANGED <<convertVars, groqVars, storeVars>>

\* user.profile is loaded and the points are compared with the cost
PurchaseCheckPoints(r) ==
    /\ sessions[r].state = "voucher"
    /\ LET req == sessions[r]
           points == profiles[req.user]
       IN  sessions' = [sessions EXCEPT ![r] =
               IF ~HasEnoughPoints(points, req.seen.points_cost)
               THEN Failing(req, "Not enough points")
               ELSE [req EXCEPT !.state = "profile", !.points = points]]
    /\ UNCHANGED <<vouchers, profiles, user_vouchers, users, utcnow, verified>>
    /\ UNCHANGED <<convertVars, groqVars, storeVars>>

\* `voucher in user.purchased_vouchers`.  Voucher.purchased_by names
\* purchased_vouchers in back_populates and User (models/user.py) declares
\* no such relationship: where the mapping provides the attribute the
\* user_vouchers rows of the user are loaded, and where it does not the
\* access raises and the request ends with nothing written.  Both outcomes
\* are kept (mapped).
PurchaseCheckPurchased(r) ==
    /\ sessions[r].state = "profile"
    /\ LET req == sessions[r] IN
       \E mapped \in BOOLEAN :
           sessions' = [sessions EXCEPT ![r] =
               IF ~mapped THEN Failing(req, "AttributeError")
               ELSE IF <<req.user, req.voucher>> \in user_vouchers
               THEN Failing(req, "You have already purchased this voucher")
               ELSE [req EXCEPT !.state = "ready"]]
    /\ UNCHANGED <<vouchers, profiles, user_vouchers, users, utcnow, verified>>
    /\ UNCHANGED <<convertVars, groqVars, storeVars>>

\* the three assignments and db.commit(): the points, the user_vouchers row
\* and the usage count are written together
PurchaseCommit(r) ==
    /\ sessions[r].state = "ready"
    /\ <<sessions[r].user, sessions[r].voucher>> \notin user_vouchers
    /\ LET req == sessions[r] IN
       /\ profiles' = [profiles EXCEPT ![req.user] = req.points - req.seen.points_cost]
       /\ user_vouchers' = user_vouchers \cup {<<req.user, req.voucher>>}
       /\ vouchers' = [vouchers EXCEPT ![req.voucher].usage_count =
                          WrittenCount(req.seen.usage_count, vouchers[req.voucher].usage_count)]
       /\ sessions' = [sessions EXCEPT ![r] =
                          [req EXCEPT !.state = "returned", !.success = TRUE,
                                      !.message = "Voucher purchased successfully"]]
    /\ UNCHANGED <<users, utcnow, verified>>
    /\ UNCHANGED <<convertVars, groqVars, storeVars>>

\* db.commit() raises: the user_vouchers row (primary key user_id,
\* voucher_id) was inserted by another request in the meantime; nothing of
\* the transaction is written
PurchaseCommitFails(r) ==
    /\ sessions[r].state = "ready"
    /\ <<sessions[r].user, sessions[r].voucher>> \in user_vouchers
    /\ sessions' = [sessions EXCEPT ![r] = Failing(sessions[r], "IntegrityError")]
    /\ UNCHANGED <<vouchers, profiles, user_vouchers, users, utcnow, verified>>
    /\ UNCHANGED <<convertVars, groqVars, storeVars>>

\* redeem_voucher: validate_voucher (found, active, in its window, below its
\* limit, minimum purchase amount met)
RedeemStart(r) ==
    /\ sessions[r].state = "idle"
    /\ \E code \in RequestVouchers, in_window \in BOOLEAN, enough \in BOOLEAN :
           LET req == [NoRequest EXCEPT !.kind = "redeem", !.voucher = code]
           IN  sessions' = [sessions EXCEPT ![r] =
                   IF code \notin DOMAIN vouchers THEN Failing(req, "Voucher not found")
                   ELSE IF ~vouchers[code].is_active THEN Failing(req, "Voucher is inactive")
                   ELSE IF ~in_window THEN Failing(req, "Voucher is not valid now")
                   ELSE IF /\ vouchers[code].usage_limit # 0
                           /\ vouchers[code].usage_count >= vouchers[code].usage_limit
                   THEN Failing(req, "Voucher usage limit exceeded")
                   ELSE IF ~enough THEN Failing(req, "Minimum purchase amount not met")
                   ELSE [req EXCEPT !.state = "validated", !.seen = vouchers[code]]]
    /\ UNCHANGED <<vouchers, profiles, user_vouchers, users, utcnow, verified>>
    /\ UNCHANGED <<convertVars, groqVars, storeVars>>

\* redeem_voucher: voucher.usage_count += 1; db.commit()
RedeemCommit(r) ==
    /\ sessions[r].state = "validated"
    /\ LET req == sessions[r] IN
       /\ vouchers' = [vouchers EXCEPT ![req.voucher].usage_count =
                          WrittenCount(req.seen.usage_count, vouchers[req.voucher].usage_count)]
       /\ sessions' = [sessions EXCEPT ![r] =
                          [req EXCEPT !.state = "returned", !.success = TRUE,
                                      !.message = "Voucher is valid"]]
    /\ UNCHANGED <<profiles, user_vouchers, users, utcnow, verified>>
    /\ UNCHANGED <<convertVars, groqVars, storeVars>>

\* the response is sent and the Session is closed
RequestEnds(r) ==
    /\ sessions[r].state = "returned"
    /\ sessions' = [sessions EXCEPT ![r] = NoRequest]
    /\ UNCHANGED <<vouchers, profiles, user_vouchers, users, utcnow, verified>>
    /\ UNCHANGED <<convertVars, groqVars, storeVars>>

VoucherNext ==
    \E r \in 1..MaxRequests :
        \/ PurchaseStart(r)
        \/ PurchaseLoadVoucher(r)
        \/ PurchaseCheckPoints(r)
        \/ PurchaseCheckPurchased(r)
        \/ PurchaseCommit(r)
        \/ PurchaseCommitFails(r)
        \/ RedeemStart(r)
        \/ RedeemCommit(r)
        \/ RequestEnds(r)

SpecVoucher == VoucherInit /\ [][VoucherNext]_vars

----------------------------------------------------------------------------
(* create_user and verify_user (services/auth_service.py) behind signup    *)
(* and verify_email (routes/auth.py).  Time is counted in hours.           *)

\* Latest hour the clock reaches.
MaxClock == 26
\* Most verify_user calls in a run.
MaxCalls == 3

\* timedelta(hours=24)
CodeLifetime == 24

Emails == {"a@x.io"}
\* the emails a request may carry: "b@x.io" never signs up
RequestEmails == Emails \cup {"b@x.io"}
\* generate_verification_code: six digits
Codes == {"123456", "654321"}
\* VerificationRequest.code is any str
RequestCodes == Codes \cup {"", "None"}

\* a nullable column: None, or a value
NoCode == [none |-> TRUE, value |-> ""]
Code(s) == [none |-> FALSE, value |-> s]
Hour(h) == [none |-> FALSE, value |-> h]
NoHour == [none |-> TRUE, value |-> 0]

\* an email with no row in users
NoUser == [exists |-> FALSE, is_active |-> FALSE, vr_code |-> NoCode, vr_code_expires |-> NoHour]

VerifyInit ==
    /\ ConvertIdle
    /\ GroqIdle
    /\ StoreIdle
    /\ vouchers = <<>>
    /\ user_vouchers = {}
    /\ sessions = <<>>
    /\ users = [e \in Emails |-> NoUser]
    /\ profiles = [e \in Emails |-> 0]
    /\ utcnow = 0
    /\ verified = NoCalls

\* signup: 400 when the email has a row; create_user otherwise
Signup ==
    /\ \E e \in Emails, code \in Codes :
           /\ ~users[e].exists
           /\ users' = [users EXCEPT ![e] =
                           [exists |-> TRUE, is_active |-> FALSE, vr_code |-> Code(code),
                            vr_code_expires |-> Hour(utcnow + CodeLifetime)]]
           /\ profiles' = [profiles EXCEPT ![e] = 10]
    /\ UNCHANGED <<vouchers, user_vouchers, sessions, utcnow, verified>>
    /\ UNCHANGED <<convertVars, groqVars, storeVars>>

\* an hour passes
Tick ==
    /\ utcnow < MaxClock
    /\ utcnow' = utcnow + 1
    /\ UNCHANGED <<vouchers, profiles, user_vouchers, sessions, users, verified>>
    /\ UNCHANGED <<convertVars, groqVars, storeVars>>

\* The first test of verify_user without the comparison of the codes.
CodeAcceptedAnyCode(user, verification_code) == user.exists

\* `not user or user.vr_code != verification_code`, negated
CodeAccepted(user, verification_code) ==
    /\ user.exists
    /\ user.vr_code = Code(verification_code)

\* The row verify_user would write if it kept the code.
ActivatedKeepingCode(user) == [user EXCEPT !.is_active = TRUE]

\* is_active = True, vr_code = None, vr_code_expires = None
Activated(user) ==
    [user EXCEPT !.is_active = TRUE, !.vr_code = NoCode, !.vr_code_expires = NoHour]

\* `datetime.utcnow() > user.vr_code_expires`
Expired(user) == utcnow > user.vr_code_expires.value

\* verify_user(db, verification_code, email)
VerifyUser ==
    /\ verified.calls < MaxCalls
    /\ \E e \in RequestEmails, code \in RequestCodes :
           LET user == IF e \in DOMAIN users THEN users[e] ELSE NoUser
               ok   == CodeAccepted(user, code) /\ ~Expired(user)
           IN  /\ users' = IF ok THEN [users EXCEPT ![e] = Activated(user)] ELSE users
               /\ verified' = [calls |-> verified.calls + 1, email |-> e, code |-> code,
                               returned |-> ok]
    /\ UNCHANGED <<vouchers, profiles, user_vouchers, sessions, utcnow>>
    /\ UNCHANGED <<convertVars, groqVars, storeVars>>

VerifyNext ==
    \/ Signup
    \/ Tick
    \/ VerifyUser

SpecVerify == VerifyInit /\ [][VerifyNext]_vars

----------------------------------------------------------------------------
(* Properties of header detection and of the Row Normalizer.               *)

Processed == 1..row_i
Emitted(j) == \E k \in 1..Len(origin) : origin[k] = j
IsGenericSource == Lower(source) \notin { <<"e","s","e","w","a">>, <<"k","h","a","l","t","i">> }

\* C1: when some line of the preview satisfies the header predicate, the
\* header index used is the smallest index of such a line: the line at that
\* index matches and no line before it does.
HeaderIsFirstMatch ==
    pc \in {"read", "rows", "done"} =>
        LET lines == csv_lines
            matching == { k \in 1..Len(lines) : IsHeaderLine(lines[k]) }
        IN  matching # {} =>
                /\ header_row + 1 \in matching
                /\ \A k \in matching : header_row + 1 <= k
                /\ \A j \in 1..header_row : j \notin matching

\* C1 witness: a header was found after a line that does not match, and a
\* later line of the preview matches too.
HeaderAfterMetaLine ==
    /\ pc = "read"
    /\ header_row >= 1
    /\ \E j \in (header_row + 2)..Len(csv_lines) : IsHeaderLine(csv_lines[j])

\* C2: end-to-end scenario A under a source without a mapping of its own:
\* exactly two records, in row order, the first with debit 500 and credit 0,
\* the second with debit 0 and credit 20000; the Total row gives none.
ScenarioAYieldsTwo ==
    (pc = "done" /\ ~raised /\ raw_csv = JoinLines(ScenarioA) /\ IsGenericSource)
    => /\ Len(result) = 2
       /\ origin = <<1, 2>>
       /\ result[1].dr = Decimal(500, 0) /\ result[1].cr = Zero
       /\ result[2].dr = Zero /\ result[2].cr = Decimal(20000, 0)

\* C3: every record the Row Normalizer emits has a debit amount above 0 or a
\* credit amount above 0.
EmittedHasAmount ==
    /\ \A k \in 1..Len(standard_data) :
           standard_data[k].dr.n > 0 \/ standard_data[k].cr.n > 0
    /\ \A k \in 1..Len(result) : result[k].dr.n > 0 \/ result[k].cr.n > 0

\* C3 witness: the function returned records after it dropped a row that
\* passed is_valid_transaction with a debit and a credit of 0.
DroppedZeroAmountRow ==
    /\ pc = "done"
    /\ Len(result) >= 1
    /\ \E j \in Processed : RowVerdict(df[j], columns, roles) = "skip_no_amount"

\* the terms of the summary/metadata denylist as the specification lists them
SpecDenylist ==
    { <<"t","o","t","a","l">>, <<"s","u","b","t","o","t","a","l">>, <<"o","p","e","n","i","n","g"," ","b","a","l","a","n","c","e">>, <<"c","l","o","s","i","n","g"," ","b","a","l","a","n","c","e">>,
      <<"b","a","l","a","n","c","e"," ","b","/","f">>, <<"b","a","l","a","n","c","e"," ","c","/","f">>, <<"s","t","a","t","e","m","e","n","t"," ","p","e","r","i","o","d">>, <<"s","u","m","m","a","r","y">>,
      <<"s","u","m">>, <<"a","v","e","r","a","g","e">>, <<"p","e","r","i","o","d"," ","s","t","a","r","t">>, <<"p","e","r","i","o","d"," ","e","n","d">> }

HasDenylistedDescription(row) ==
    HasCell(row, roles.desc) /\ ContainsAny(Lower(row[roles.desc]), SpecDenylist)

\* C4: a row whose description-role field contains a denylisted term gives
\* no record, whatever its debit, credit and date fields hold.
DenylistedDescriptionDropped ==
    \A j \in Processed : HasDenylistedDescription(df[j]) => ~Emitted(j)

\* C4 witness: the loop has passed a row with a date, a non-zero debit and a
\* denylisted term in its description that the later description test of the
\* loop and the every-field test do not know ("sum", in "Summer Sale").
DenylistedRowWithAmount ==
    \E j \in Processed :
        /\ HasDenylistedDescription(df[j])
        /\ HasCell(df[j], roles.date)
        /\ DrCrAmount(df[j], roles.debit) # Zero
        /\ ~ContainsAny(Lower(df[j][roles.desc]), NonTransactionTerms)
        /\ \A k \in 1..Len(df[j]) :
               notna(df[j][k]) => ~ContainsAny(Lower(df[j][k]), AnyColumnTerms)

AsWritten(j) ==
    IF roles.date = 0 THEN df[j]
    ELSE [df[j] EXCEPT ![roles.date] = raw_rows[j][roles.date]]

\* a non-empty text that neither pd.to_datetime nor one of the formats reads
UnparsableDate(text) ==
    /\ Strip(text) # <<>>
    /\ ~ToDatetime(Strip(text)).ok
    /\ ~TryFormats(Strip(text), 1).ok

\* C8: a row with a non-zero debit or credit amount whose date-role field
\* holds a text that cannot be parsed as a date (and that passes every other
\* test of the loop with that text) is not dropped: a record is emitted for
\* it and its transaction date is the date of the ingestion moment.
UnparsableDateFallsBack ==
    \A j \in Processed :
        ( /\ roles.date # 0
          /\ UnparsableDate(raw_rows[j][roles.date])
          /\ RowVerdict(AsWritten(j), columns, roles) = "append" )
        => \E k \in 1..Len(origin) :
               origin[k] = j /\ standard_data[k].transaction_date = Now.date

\* the column the header itself calls debit, and the one it calls credit
DebitNames == { <<"d","e","b","i","t">>, <<"d","r",".">>, <<"w","i","t","h","d","r","a","w","a","l">> }
CreditNames == { <<"c","r","e","d","i","t">>, <<"c","r",".">>, <<"d","e","p","o","s","i","t">> }
Dash == <<"-">>

BothDashes(j) ==
    \E d \in 1..Len(columns), c \in 1..Len(columns) :
        /\ Lower(columns[d]) \in DebitNames
        /\ Lower(columns[c]) \in CreditNames
        /\ raw_rows[j][d] = Dash
        /\ raw_rows[j][c] = Dash

\* C9: end-to-end scenario B: a row whose debit cell and credit cell are both
\* "-" and whose date is not empty gives no record, whatever its description
\* and other cells hold.
DashRowDropped ==
    \A j \in Processed :
        (BothDashes(j) /\ roles.date # 0 /\ raw_rows[j][roles.date] # <<>>)
        => ~Emitted(j)

\* An amount text: digits, thousands separators, currency symbols and at
\* most one decimal point.
CurrencySymbols == {"$"}
IsAmountText(t) ==
    /\ \A k \in 1..Len(t) : IsDigit(t[k]) \/ t[k] \in {".", ","} \cup CurrencySymbols
    /\ Cardinality({k \in 1..Len(t) : t[k] = "."}) <= 1

RECURSIVE Pow10(_)
Pow10(e) == IF e = 0 THEN 1 ELSE 10 * Pow10(e - 1)

\* The number written by a text of digits with at most one dot, as the sum of
\* its digits times their place values: <<numerator, number of decimals>>.
PlaceValue(t) ==
    LET digits == SelectSeq(t, IsDigit)
        dot == IndexOf(t, ".")
        decimals == IF dot = 0 THEN 0 ELSE Len(t) - dot
        term(k) == DigitVal(digits[k]) * Pow10(Len(digits) - k)
        RECURSIVE Sum(_)
        Sum(k) == IF k = 0 THEN 0 ELSE term(k) + Sum(k - 1)
    IN  <<Sum(Len(digits)), decimals>>

\* value (a decimal n / 10^k) equals the number an amount text writes once
\* every character that is not a digit or "." is deleted; 0 when nothing or
\* no digit is left
IsNumberOf(value, t) ==
    LET kept == SelectSeq(t, LAMBDA c : IsDigit(c) \/ c = ".")
        pv == PlaceValue(kept)
    IN  IF SelectSeq(kept, IsDigit) = <<>> THEN value.n = 0
        ELSE value.n * Pow10(pv[2]) = pv[1] * Pow10(value.k)

WrittenAmount(j, col) == IF col = 0 THEN <<>> ELSE raw_rows[j][col]

\* C10: for every emitted record, each of debit, credit and balance whose
\* field is an amount text equals the number left after deleting every
\* character that is not a digit or "."; an empty remainder gives 0, and so
\* does a remainder that float() cannot parse (more than one ".").
AmountsAreDigitsAndDots ==
    \A k \in 1..Len(standard_data) :
        LET j == origin[k]
            rec == standard_data[k]
            ok(value, t) ==
                /\ IsAmountText(t) => IsNumberOf(value, t)
                /\ Cardinality({i \in 1..Len(t) : t[i] = "."}) > 1 => value = Zero
        IN  /\ ok(rec.dr, WrittenAmount(j, roles.debit))
            /\ ok(rec.cr, WrittenAmount(j, roles.credit))
            /\ ok(rec.balance, WrittenAmount(j, roles.balance))

\* C10 witness: a record whose debit field carries a currency symbol, a
\* thousands separator and a decimal point (1234.5 is read), and whose
\* balance field has two decimal points (0 is read).
AmountWithSymbols ==
    \E k \in 1..Len(standard_data) :
        LET t == WrittenAmount(origin[k], roles.debit)
            b == WrittenAmount(origin[k], roles.balance)
        IN  /\ IsAmountText(t)
            /\ Contains(t, <<",">>) /\ Contains(t, <<".">>) /\ Contains(t, <<"$">>)
            /\ standard_data[k].dr = Decimal(12345, 1)
            /\ Cardinality({i \in 1..Len(b) : b[i] = "."}) > 1
            /\ standard_data[k].balance = Zero

----------------------------------------------------------------------------
(* Properties of the two users of ask_groq.                                *)

\* C5: whenever the classification call fails (network error, timeout,
\* non-200 status, malformed reply) the category returned is exactly
\* "Other".
FailureGivesOther ==
    ( /\ call.state = "returned"
      /\ call.caller = "detect_category"
      /\ category # None
      /\ CallFailed(call.response) )
    => category = Other

\* the reply of a successful call holds nothing json.loads accepts
ParseFails(resp) ==
    /\ resp.kind = "reply"
    /\ \/ JsonMatch(resp.text) = <<>>
       \/ ~JsonLoads(JsonMatch(resp.text)).ok

\* C6: whenever the classification call or the parsing of its reply fails,
\* the source label is "Unknown" and process_file returns success = true
\* with the extracted data (no exception reached its outer handler).
FailureGivesUnknown ==
    ( /\ upload # Idle
      /\ upload.state = "returned"
      /\ call.state = "returned"
      /\ call.caller = "process_file"
      /\ CallFailed(call.response) \/ ParseFails(call.response) )
    => /\ upload.success
       /\ upload.source = Unknown
       /\ upload.data = upload.csv_data
       /\ upload.data \in ExtractedPreviews

----------------------------------------------------------------------------
(* Properties of the upload endpoint.                                      *)

\* C11: after any sequence of uploads, every stored transaction comes from
\* a row that is not non-transactional: it has a debit or a credit above 0
\* and its description holds no summary/metadata term.
StoredAreTransactions ==
    \A k \in 1..Len(db) :
        /\ db[k].dr.n > 0 \/ db[k].cr.n > 0
        /\ ~ContainsAny(Lower(db[k].description), SpecDenylist)

\* a file that is neither a PDF nor a spreadsheet, by content type or by name
UnsupportedKind(file_name, content_type) ==
    /\ content_type \notin { "application/pdf", "application/vnd.ms-excel",
           "application/vnd.openxmlformats-officedocument.spreadsheetml.sheet" }
    /\ \A ext \in { <<".","p","d","f">>, <<".","x","l","s">>, <<".","x","l","s","x">> } :
           SubSeq(Lower(file_name), Len(file_name) - Len(ext) + 1, Len(file_name)) # ext

\* C12: for an upload of an unsupported kind, process_file returns at once
\* with success = false and data = None: no CSV text is extracted, no call
\* of the external classifier is made and the store is not changed.
UnsupportedStopsProcessing ==
    [][ (upload # Idle /\ UnsupportedKind(upload.filename, upload.content_type))
        => /\ db' = db
           /\ call' = Idle
           /\ upload.state = "received"
              => /\ upload'.state = "returned"
                 /\ ~upload'.success
                 /\ upload'.data = None
                 /\ upload'.csv_data = None ]_vars

\* C12 witness: an unsupported file was rejected and answered, after an
\* earlier upload had stored rows.
RejectedUnsupported ==
    /\ upload # Idle
    /\ UnsupportedKind(upload.filename, upload.content_type)
    /\ upload.state = "returned"
    /\ http.status # 0
    /\ db # <<>>

\* C13: when process_file reports failure, the endpoint answers with a 4xx
\* status carrying the failure message, and stores nothing.
RejectionIsClientError ==
    (upload # Idle /\ upload.state = "returned" /\ ~upload.success /\ http.status # 0)
    => /\ http.status \in 400..499
       /\ http.detail = upload.message
       /\ http.stored = 0

----------------------------------------------------------------------------
(* Properties of process_and_save_transactions.                            *)

\* C14: when no line of the preview satisfies the header predicate,
\* convert_to_standard_format returns an empty result and
\* process_and_save_transactions returns success = false, count = 0 and a
\* message, without raising, without a call of the category classifier and
\* without storing anything.
NoHeaderGivesEmptyOutcome ==
    (pc \in {"done", "classify", "returned"} /\
     \A k \in 1..Len(csv_lines) : ~IsHeaderLine(csv_lines[k]))
    => /\ result = <<>>
       /\ ~raised
       /\ classified = 0
       /\ db = <<>>
       /\ pc # "classify"
       /\ pc = "returned" =>
              outcome = [state |-> "returned", success |-> FALSE,
                         message |-> "No valid transactions found in file",
                         count |-> 0]

\* C14 witness: the function has returned for a preview that has data lines
\* under a first line the header predicate rejects.
ReturnedWithoutHeader ==
    /\ pc = "returned"
    /\ Len(csv_lines) >= 2
    /\ csv_lines[1] = HeaderParticulars
    /\ \A k \in 1..Len(csv_lines) : ~IsHeaderLine(csv_lines[k])

\* C15: the store holds either the whole batch, with success = true and
\* count = size of the batch, or nothing of it, with success = false and
\* count = 0; it never holds a non-empty strict part of the batch.
BatchIsAtomic ==
    /\ db = <<>> \/ db = transactions
    /\ pc = "returned" =>
           \/ /\ outcome.success
              /\ transactions # <<>>
              /\ db = transactions
              /\ outcome.count = Len(transactions)
           \/ /\ ~outcome.success
              /\ db = <<>>
              /\ outcome.count = 0

\* C15 witness: a batch of two transactions was committed.
CommittedBatchOfTwo ==
    /\ pc = "returned"
    /\ outcome.success
    /\ Len(db) = 2

\* the fields of a record that tell which row it came from
Core(rec) == <<rec.transaction_date, rec.description, rec.dr, rec.cr, rec.balance>>

\* ts is rs with some elements left out, the others in the order of rs
RECURSIVE IsSubsequence(_, _)
IsSubsequence(ts, rs) ==
    IF ts = <<>> THEN TRUE
    ELSE IF rs = <<>> THEN FALSE
    ELSE IF Core(Head(ts)) = Core(Head(rs)) /\ IsSubsequence(Tail(ts), Tail(rs)) THEN TRUE
    ELSE IsSubsequence(ts, Tail(rs))

\* C16: the transactions of one upload are in the order of the rows they
\* come from, whatever the classification calls answer: the records follow
\* the rows of the preview and the transactions follow the records.
RowOrderKept ==
    /\ \A i, j \in 1..Len(origin) : i < j => origin[i] < origin[j]
    /\ \A k \in 1..Len(standard_data) :
           Core(standard_data[k]) = Core(StandardRecord(df[origin[k]], columns, roles, source))
    /\ IsSubsequence(transactions, result)
    /\ IsSubsequence(db, result)

\* C16 witness: two transactions from different rows, classified with
\* different answers, were committed after a row between them was dropped.
TwoTransactionsInOrder ==
    /\ pc = "returned"
    /\ Len(db) = 2
    /\ Core(db[1]) # Core(db[2])
    /\ db[1].category # db[2].category
    /\ origin[1] + 1 < origin[2]

----------------------------------------------------------------------------
(* Role resolution.                                                        *)

\* the candidate substrings of every role, per source
RoleTerms(src) ==
    IF Lower(src) = <<"e","s","e","w","a">> THEN
        [ date    |-> {<<"d","a","t","e"," ","t","i","m","e">>},
          desc    |-> {<<"d","e","s","c","r","i","p","t","i","o","n">>},
          debit   |-> {<<"d","r",".">>},
          credit  |-> {<<"c","r",".">>},
          balance |-> {<<"b","a","l","a","n","c","e">>},
          ref     |-> {<<"r","e","f","e","r","e","n","c","e"," ","c","o","d","e">>} ]
    ELSE IF Lower(src) = <<"k","h","a","l","t","i">> THEN
        [ date    |-> {<<"t","r","a","n","s","a","c","t","i","o","n"," ","d","a","t","e">>},
          desc    |-> {<<"d","e","s","c","r","i","p","t","i","o","n">>},
          debit   |-> {<<"a","m","o","u","n","t","(","-",")">>},
          credit  |-> {<<"a","m","o","u","n","t","(","+",")">>},
          balance |-> {<<"b","a","l","a","n","c","e">>},
          ref     |-> {<<"t","r","a","n","s","a","c","t","i","o","n"," ","i","d">>} ]
    ELSE
        [ date    |-> {<<"d","a","t","e">>, <<"t","x","n"," ","d","a","t","e">>, <<"t","r","a","n","s","a","c","t","i","o","n"," ","d","a","t","e">>},
          desc    |-> {<<"d","e","s","c","r","i","p","t","i","o","n">>, <<"n","a","r","r","a","t","i","o","n">>, <<"p","a","r","t","i","c","u","l","a","r","s">>},
          debit   |-> {<<"d","r">>, <<"d","e","b","i","t">>, <<"w","i","t","h","d","r","a","w","a","l">>, <<"w","i","t","h","d","r","a","w">>},
          credit  |-> {<<"c","r">>, <<"c","r","e","d","i","t">>, <<"d","e","p","o","s","i","t">>},
          balance |-> {<<"b","a","l","a","n","c","e">>},
          ref     |-> {<<"r","e","f","e","r","e","n","c","e">>, <<"r","e","f">>, <<"t","r","a","n","s","a","c","t","i","o","n"," ","i","d">>} ]

RoleNames == {"date", "desc", "debit", "credit", "balance", "ref"}

\* the columns whose lower-cased name contains a candidate of the role
MatchingColumns(r) ==
    { k \in 1..Len(columns) :
          \E t \in RoleTerms(source)[r] : Contains(Lower(columns[k]), t) }

\* every role is the leftmost matching column, 0 when there is none
RolesResolved ==
    \A r \in RoleNames :
        /\ roles[r] = 0 <=> MatchingColumns(r) = {}
        /\ roles[r] # 0 =>
               /\ roles[r] \in MatchingColumns(r)
               /\ \A k \in MatchingColumns(r) : roles[r] <= k

\* C18: the step that reads the header maps every role to the leftmost
\* column whose lower-cased name contains one of the role's candidate
\* substrings, and leaves it unmapped exactly when no column name contains
\* one; no later step changes the mapping.
RoleIsLeftmostMatch ==
    [][ /\ pc = "read" => RolesResolved'
        /\ pc \in {"rows", "done"} => (roles' = roles /\ columns' = columns) ]_vars

\* C18 witness: a header in which two columns match one role and no column
\* matches another.
RoleWithTwoMatches ==
    /\ pc = "done"
    /\ header_row # -1
    /\ \E r \in RoleNames : Cardinality(MatchingColumns(r)) >= 2
    /\ \E r \in RoleNames : roles[r] = 0

----------------------------------------------------------------------------
(* Reply parsing of the Source Identifier.                                 *)

\* The index of the brace that closes the object opened before position k,
\* at nesting depth d; braces inside string literals do not count.  0 when
\* the text ends first.
RECURSIVE ClosingBrace(_, _, _, _)
ClosingBrace(s, k, d, quoted) ==
    IF k > Len(s) THEN 0
    ELSE IF quoted THEN
        IF s[k] = "\\" THEN ClosingBrace(s, k + 2, d, TRUE)
        ELSE ClosingBrace(s, k + 1, d, s[k] # "\"")
    ELSE IF s[k] = "\"" THEN ClosingBrace(s, k + 1, d, TRUE)
    ELSE IF s[k] = "{" THEN ClosingBrace(s, k + 1, d + 1, FALSE)
    ELSE IF s[k] = "}" THEN
        IF d = 1 THEN k ELSE ClosingBrace(s, k + 1, d - 1, FALSE)
    ELSE ClosingBrace(s, k + 1, d, FALSE)

\* the first balanced object of the text, <<>> when there is none
FirstBalanced(text) ==
    LET opens == { a \in 1..Len(text) :
                       text[a] = "{" /\ ClosingBrace(text, a + 1, 1, FALSE) # 0 }
    IN  IF opens = {} THEN <<>>
        ELSE LET a == CHOOSE x \in opens : \A y \in opens : x <= y
             IN  SubSeq(text, a, ClosingBrace(text, a + 1, 1, FALSE))

\* the label the first balanced object of the reply names
SourceOfFirstObject(text) ==
    LET object == FirstBalanced(text) IN
    IF object = <<>> THEN Unknown
    ELSE IF ~JsonLoads(object).ok THEN Unknown
    ELSE DictGet(JsonLoads(object).members, <<"s","o","u","r","c","e">>, Unknown)

\* C20: for every reply text, the source label is the value of the "source"
\* field of the first balanced JSON object of the reply, also when text,
\* braces or further objects follow it, and "Unknown" when the reply holds
\* no object or the object has no "source" field.
SourceIsFirstObject ==
    ( /\ upload # Idle
      /\ upload.state = "returned"
      /\ upload.success
      /\ call # Idle
      /\ call.state = "returned"
      /\ call.caller = "process_file"
      /\ call.response.kind = "reply" )
    => upload.source = SourceOfFirstObject(call.response.text)

----------------------------------------------------------------------------
(* The five checks of the row filter, as the specification lists them.     *)

\* 1. at most 70% of the fields are empty
FewEmptyFields(row) ==
    Cardinality({ k \in 1..Len(row) : ~notna(row[k]) }) * 10 <= Len(row) * 7

\* 2. the date-role value is not a header label
DateIsNoLabel(row) ==
    ~HasCell(row, roles.date)
    \/ Lower(row[roles.date]) \notin { <<"d","a","t","e">>, <<"t","r","a","n","s","a","c","t","i","o","n"," ","d","a","t","e">>, <<"t","x","n"," ","d","a","t","e">> }

\* 3. no field holds a term of the denylist
NoDenylistedField(row) ==
    \A k \in 1..Len(row) :
        notna(row[k]) => ~ContainsAny(Lower(row[k]), SpecDenylist)

\* 4. the debit-role or the credit-role field holds a value that is not
\*    empty, not zero and not the placeholder
HoldsAmount(row, col) ==
    /\ HasCell(row, col)
    /\ Strip(row[col]) \notin { <<>>, <<"-">> }
    /\ IsAmountText(Strip(row[col]))
    /\ \E k \in 1..Len(row[col]) : IsDigit(row[col][k]) /\ row[col][k] # "0"

\* 5. the reference column holds no bare status token
NoStatusToken(row) ==
    ~HasCell(row, roles.ref) \/ Lower(Strip(row[roles.ref])) \notin StatusTokens

PassesFiveChecks(row) ==
    /\ FewEmptyFields(row)
    /\ DateIsNoLabel(row)
    /\ NoDenylistedField(row)
    /\ HoldsAmount(row, roles.debit) \/ HoldsAmount(row, roles.credit)
    /\ NoStatusToken(row)

\* C19: the five checks are the only reasons a row is dropped: when the
\* function has returned without an exception, every row that passes the
\* five checks has given a record.
OnlyFiveChecksDrop ==
    (pc = "done" /\ ~raised /\ header_row # -1)
    => \A j \in 1..Len(df) : PassesFiveChecks(df[j]) => Emitted(j)

----------------------------------------------------------------------------
(* Normalizing the emitted records a second time.                          *)

CanonicalHeader ==
    <<"t","r","a","n","s","a","c","t","i","o","n","_","i","d",",","t","r","a","n","s","a","c","t","i","o","n","_","d","a","t","e",",","t","r","a","n","s","a","c","t","i","o","n","_","t","i","m","e",",","d","e","s","c","r","i","p","t","i","o","n",",","d","r",",","c","r",",","b","a","l","a","n","c","e",",","s","o","u","r","c","e",",","r","a","w","_","d","a","t","a">>

RECURSIVE NumText(_)
NumText(n) ==
    IF n < 10 THEN <<DigitChars[n + 1]>>
    ELSE NumText(n \div 10) \o <<DigitChars[(n % 10) + 1]>>

\* a number in at least `width` digits
RECURSIVE Padded(_, _)
Padded(t, width) == IF Len(t) >= width THEN t ELSE Padded(<<"0">> \o t, width)

\* 2024-01-05
DateText(d) ==
    Padded(NumText(d[1]), 4) \o <<"-">> \o Padded(NumText(d[2]), 2)
        \o <<"-">> \o Padded(NumText(d[3]), 2)

\* 09:30:00
TimeText(t) ==
    Padded(NumText(t[1]), 2) \o <<":">> \o Padded(NumText(t[2]), 2)
        \o <<":">> \o Padded(NumText(t[3]), 2)

\* 500.0, 150.5, 0.0
FloatText(d) ==
    NumText(d.n \div Pow10(d.k)) \o <<".">>
        \o (IF d.k = 0 THEN <<"0">> ELSE Padded(NumText(d.n % Pow10(d.k)), d.k))

RECURSIVE DoubledQuotes(_)
DoubledQuotes(t) ==
    IF t = <<>> THEN <<>>
    ELSE IF Len(t) = 1 THEN (IF t[1] = "\"" THEN <<"\"", "\"">> ELSE t)
    ELSE LET half == Len(t) \div 2
         IN  DoubledQuotes(SubSeq(t, 1, half)) \o DoubledQuotes(SubSeq(t, half + 1, Len(t)))

\* a field of a CSV line: quoted when it holds a comma or a quote
FieldText(t) ==
    IF \E k \in 1..Len(t) : t[k] \in {",", "\""}
    THEN <<"\"">> \o DoubledQuotes(t) \o <<"\"">>
    ELSE t

\* the JSON text of the raw_data of a record
RECURSIVE PairsText(_, _)
PairsText(pairs, k) ==
    IF k > Len(pairs) THEN <<>>
    ELSE (IF k = 1 THEN <<>> ELSE <<","," ">>)
         \o <<"\"">> \o pairs[k][1] \o <<"\"", ":", " ">>
         \o (IF pairs[k][2] = NaN THEN <<"N","a","N">>
             ELSE <<"\"">> \o pairs[k][2] \o <<"\"">>)
         \o PairsText(pairs, k + 1)
RawDataText(pairs) == <<"{">> \o PairsText(pairs, 1) \o <<"}">>

RECURSIVE JoinFields(_)
JoinFields(fields) ==
    IF Len(fields) = 1 THEN fields[1]
    ELSE fields[1] \o <<",">> \o JoinFields(Tail(fields))

\* one record as a line of the canonical table
CanonicalLine(rec) ==
    JoinFields(<< IF rec.transaction_id = None THEN <<>> ELSE FieldText(rec.transaction_id),
                  DateText(rec.transaction_date),
                  TimeText(rec.transaction_time),
                  FieldText(rec.description),
                  FloatText(rec.dr),
                  FloatText(rec.cr),
                  FloatText(rec.balance),
                  FieldText(rec.source),
                  FieldText(RawDataText(rec.raw_data)) >>)

\* the records as a table in the canonical column layout
CanonicalTable(records) ==
    JoinLines(<<CanonicalHeader>> \o [k \in 1..Len(records) |-> CanonicalLine(records[k])])

Cores(records) == [k \in 1..Len(records) |-> Core(records[k])]

\* C17: the records the function returned, presented again as a table in
\* the canonical column layout and normalized under the same source, give
\* the same records with the same date, description, debit, credit and
\* balance: none is dropped and none is altered.
RefilteringChangesNothing ==
    (pc = "done" /\ ~raised /\ result # <<>>)
    => Cores(Convert(CanonicalTable(result), source)) = Cores(result)

----------------------------------------------------------------------------
(* The category label.                                                     *)

\* the sixteen labels of the closed set
Categories ==
    { <<"F","o","o","d"," ","&"," ","D","i","n","i","n","g">>, <<"T","r","a","n","s","p","o","r","t","a","t","i","o","n">>, <<"S","h","o","p","p","i","n","g">>, <<"E","n","t","e","r","t","a","i","n","m","e","n","t">>,
      <<"U","t","i","l","i","t","i","e","s">>, <<"R","e","n","t">>, <<"E","d","u","c","a","t","i","o","n">>, <<"H","e","a","l","t","h","c","a","r","e">>, <<"T","r","a","v","e","l">>,
      <<"S","a","l","a","r","y">>, <<"T","r","a","n","s","f","e","r">>, <<"W","i","t","h","d","r","a","w","a","l">>, <<"I","n","v","e","s","t","m","e","n","t">>, <<"I","n","s","u","r","a","n","c","e">>,
      <<"S","u","b","s","c","r","i","p","t","i","o","n">>, <<"O","t","h","e","r">> }

\* C21: whatever the classifier answers, the category of every transaction
\* built and of every transaction stored is one of the sixteen labels.
CategoryIsInClosedSet ==
    /\ \A k \in 1..Len(transactions) : transactions[k].category \in Categories
    /\ \A k \in 1..Len(db) : db[k].category \in Categories

----------------------------------------------------------------------------
(* The sign of the amounts.                                                *)

\* C22: every record the Row Normalizer builds or returns has a debit, a
\* credit and a balance that are not negative, also when the cells are
\* written with a leading minus sign or in parentheses.
AmountsAreNonNegative ==
    /\ \A k \in 1..Len(standard_data) :
           /\ standard_data[k].dr.n >= 0
           /\ standard_data[k].cr.n >= 0
           /\ standard_data[k].balance.n >= 0
    /\ \A k \in 1..Len(result) :
           /\ result[k].dr.n >= 0
           /\ result[k].cr.n >= 0
           /\ result[k].balance.n >= 0

\* C22 witness: a record was returned for a row whose debit and balance are
\* written with a minus sign and whose credit is written in parentheses.
SignedRowEmitted ==
    /\ pc = "done"
    /\ \E k \in 1..Len(result) :
           LET written == raw_rows[origin[k]] IN
           /\ Head(written[roles.debit]) = "-"
           /\ Head(written[roles.credit]) = "("
           /\ Head(written[roles.balance]) = "-"
           /\ result[k].dr.n > 0 /\ result[k].cr.n > 0 /\ result[k].balance.n > 0

----------------------------------------------------------------------------
(* The choice of the mapping by the source label.                          *)

\* the leftmost column whose lower-cased name contains one of the terms
LeftmostWith(terms) ==
    LET matching == { k \in 1..Len(columns) :
                          \E t \in terms : Contains(Lower(columns[k]), t) }
    IN  IF matching = {} THEN 0 ELSE CHOOSE k \in matching : \A m \in matching : k <= m

\* the role map a table of candidate substrings gives on the header read
ResolvedWith(table) == [r \in RoleNames |-> LeftmostWith(table[r])]

EsewaTable   == RoleTerms(<<"e","s","e","w","a">>)
KhaltiTable  == RoleTerms(<<"k","h","a","l","t","i">>)
GenericTable == RoleTerms(<<"u","n","k","n","o","w","n">>)

\* C23: the roles are resolved with the eSewa substrings when the label is
\* eSewa in any letter case, with the Khalti substrings when it is Khalti in
\* any letter case, and with the generic lists for every other label.
MappingFollowsSource ==
    (pc \in {"rows", "done"} /\ header_row # -1)
    => /\ Lower(source) = <<"e","s","e","w","a">> => roles = ResolvedWith(EsewaTable)
       /\ Lower(source) = <<"k","h","a","l","t","i">> => roles = ResolvedWith(KhaltiTable)
       /\ Lower(source) \notin {<<"e","s","e","w","a">>, <<"k","h","a","l","t","i">>}
              => roles = ResolvedWith(GenericTable)

\* C23 witness: a statement was normalized under a wallet label that is not
\* written in lower case, on a header the generic lists resolve differently.
WalletLabelInOtherCase ==
    /\ pc = "done"
    /\ Len(result) >= 1
    /\ Lower(source) \in {<<"e","s","e","w","a">>, <<"k","h","a","l","t","i">>}
    /\ source # Lower(source)
    /\ ResolvedWith(GenericTable) # roles


\* C27: the role map never gives one column to two roles.
RolesAreDistinct ==
    (pc \in {"rows", "done"} /\ header_row # -1)
    => \A r1, r2 \in RoleNames :
           (r1 # r2 /\ roles[r1] # 0) => roles[r1] # roles[r2]

----------------------------------------------------------------------------
(* Document kind detection.                                                *)

\* the kind a declared media type names, "none" when it names neither
KindOfMediaType(content_type) ==
    IF content_type = "application/pdf" THEN "pdf"
    ELSE IF content_type \in
            { "application/vnd.ms-excel",
              "application/vnd.openxmlformats-officedocument.spreadsheetml.sheet" }
    THEN "excel"
    ELSE "none"

HasExtension(file_name, ext) ==
    /\ Len(file_name) >= Len(ext)
    /\ Lower(SubSeq(file_name, Len(file_name) - Len(ext) + 1, Len(file_name))) = ext

\* the kind a filename extension names, in any letter case
KindOfExtension(file_name) ==
    IF HasExtension(file_name, <<".","p","d","f">>) THEN "pdf"
    ELSE IF HasExtension(file_name, <<".","x","l","s">>) \/ HasExtension(file_name, <<".","x","l","s","x">>)
    THEN "excel"
    ELSE "none"

\* C24: the kind of a document is the kind its declared media type names,
\* whatever its extension; when the media type names none, it is the kind
\* of the filename extension, in any letter case; otherwise "unsupported".
KindFromTypeThenExtension ==
    (upload # Idle /\ upload.state # "received")
    => upload.format =
           IF KindOfMediaType(upload.content_type) # "none"
           THEN KindOfMediaType(upload.content_type)
           ELSE IF KindOfExtension(upload.filename) # "none"
           THEN KindOfExtension(upload.filename)
           ELSE "unsupported"

\* C24 witness: a file with a .pdf name declared as an Excel sheet was taken
\* as excel.
TypeBeatsExtension ==
    /\ upload # Idle
    /\ upload.state # "received"
    /\ KindOfExtension(upload.filename) = "pdf"
    /\ KindOfMediaType(upload.content_type) = "excel"
    /\ upload.format = "excel"

----------------------------------------------------------------------------
(* The date and the time of day of a record.                               *)

\* the parse attempts made on a date text without ":", in their order
Attempts(text) ==
    << ToDatetime(text), Strptime(text, "%Y-%m-%d"),
       Strptime(text, "%d-%m-%Y"), Strptime(text, "%d/%m/%Y") >>

Succeeding(text) == { i \in 1..Len(Attempts(text)) : Attempts(text)[i].ok }

FirstSucceeding(text) ==
    Attempts(text)[CHOOSE i \in Succeeding(text) : \A m \in Succeeding(text) : i <= m]

\* the date and time of record k follow from the date-role text of its row
DerivedFromDateText(k) ==
    LET text == Strip(df[origin[k]][roles.date])
        rec  == standard_data[k]
    IN  IF Contains(text, <<":">>)
        THEN ToDatetime(text).ok =>
                 /\ rec.transaction_date = ToDatetime(text).date
                 /\ rec.transaction_time = ToDatetime(text).time
        ELSE IF Succeeding(text) # {}
        THEN /\ rec.transaction_date = FirstSucceeding(text).date
             /\ rec.transaction_time = Now.time
        ELSE /\ rec.transaction_date = Now.date
             /\ rec.transaction_time = Now.time

\* C25: for every record, a date-role text with ":" that parses gives both
\* the date and the time of day; a text without ":" gives the date of the
\* first parse attempt that succeeds and the time of day of the ingestion
\* moment; a text no attempt parses gives the date of the ingestion moment.
DateAndTimeDerivation ==
    \A k \in 1..Len(standard_data) :
        HasCell(df[origin[k]], roles.date) => DerivedFromDateText(k)

\* C25 witness: the function returned a record dated by a parsed text
\* without ":" and a record whose date text no attempt parses.
ParsedAndFallbackDates ==
    /\ pc = "done"
    /\ Len(result) = Len(standard_data)
    /\ \E a, b \in 1..Len(standard_data) :
           LET ta == Strip(df[origin[a]][roles.date])
               tb == Strip(df[origin[b]][roles.date])
           IN  /\ HasCell(df[origin[a]], roles.date) /\ HasCell(df[origin[b]], roles.date)
               /\ ~Contains(ta, <<":">>) /\ Succeeding(ta) # {}
               /\ standard_data[a].transaction_date # Now.date
               /\ ~Contains(tb, <<":">>) /\ Succeeding(tb) = {}
               /\ standard_data[b].transaction_date = Now.date

\* a record whose date and time of day come from one text with ":"
CombinedDateTime ==
    /\ pc = "done"
    /\ \E k \in 1..Len(result) :
           /\ Contains(Strip(df[origin[k]][roles.date]), <<":">>)
           /\ result[k].transaction_time # Now.time
           /\ result[k].transaction_date # Now.date

----------------------------------------------------------------------------
(* The calls of the category classifier.                                   *)

\* C26: during one run of process_and_save_transactions the classifier is
\* called once for every record the Row Normalizer returned, in their order,
\* and for no other row: the calls made never exceed the records, and when
\* the function has returned they are as many as the records.
OneCallPerRecord ==
    /\ pc \notin {"classify", "returned"} => classified = 0
    /\ pc = "classify" =>
           /\ classified = tx_i + (IF call = Idle THEN 0 ELSE 1)
           /\ classified <= Len(result)
    /\ pc = "returned" => classified = Len(result)

\* C26 witness: the function returned after two calls for a statement of
\* which one row was dropped.
TwoCallsOneRowDropped ==
    /\ pc = "returned"
    /\ Len(result) = 2
    /\ Len(df) = 3
    /\ classified = 2

----------------------------------------------------------------------------
(* Vouchers and points.                                                    *)

\* C28: whatever way purchase and redeem requests interleave, also when
\* several of them read the voucher before one of them commits, the usage
\* count of a voucher never exceeds its usage limit.
UsageWithinLimit ==
    \A v \in DOMAIN vouchers : vouchers[v].usage_count <= vouchers[v].usage_limit

\* C28 witness: two requests that read the same usage count, one below the
\* limit, have both committed.
TwoCommitsFromOneRead ==
    \E r, q \in DOMAIN sessions :
        /\ r # q
        /\ sessions[r].state = "returned" /\ sessions[r].success
        /\ sessions[q].state = "returned" /\ sessions[q].success
        /\ sessions[r].voucher = sessions[q].voucher
        /\ sessions[r].seen.usage_count = sessions[q].seen.usage_count
        /\ sessions[r].seen.usage_count + 1 = sessions[r].seen.usage_limit

\* a step in which a purchase request ends without success
PurchaseFails ==
    \E r \in DOMAIN sessions :
        /\ sessions[r].kind = "purchase" \/ sessions[r].state = "idle"
        /\ sessions[r].state # "returned"
        /\ sessions'[r].state = "returned"
        /\ sessions'[r].kind = "purchase"
        /\ ~sessions'[r].success

\* C29: from non-negative points and with non-negative costs the points of a
\* user are never negative after a step, and a step in which a purchase
\* fails leaves the points, the purchased vouchers and the usage counts as
\* they were.
PointsNeverNegative ==
    [][ (/\ \A u \in DOMAIN profiles : profiles[u] >= 0
         /\ \A v \in DOMAIN vouchers : vouchers[v].points_cost >= 0)
        => /\ \A u \in DOMAIN profiles' : profiles'[u] >= 0
           /\ PurchaseFails => UNCHANGED <<profiles, user_vouchers, vouchers>> ]_vars

\* C29 witness: a purchase was paid for, and a later purchase of the same
\* user has failed for lack of points.
PaidThenRefused ==
    /\ \E u \in DOMAIN profiles : profiles[u] < StartPoints[u] /\ user_vouchers # {}
    /\ \E r \in DOMAIN sessions :
           /\ sessions[r].state = "returned"
           /\ sessions[r].kind = "purchase"
           /\ sessions[r].message = "Not enough points"

----------------------------------------------------------------------------
(* Email verification.                                                     *)

\* a verify_user call is made in the step
VerifyCalled == verified'.calls = verified.calls + 1

\* the call of the step is for an email whose code was used before the step
AlreadyVerified ==
    /\ verified'.email \in DOMAIN users
    /\ users[verified'.email].exists
    /\ users[verified'.email].is_active

\* C30: a verify_user call returns True only when the code supplied is the
\* stored one and the clock is not past its expiry, and then the user is
\* active and the code and its expiry are cleared; a call for an email that
\* was verified before returns False and changes nothing; a call that
\* returns False leaves every is_active as it was.
VerificationCodeIsSingleUse ==
    [][ VerifyCalled =>
          LET e == verified'.email IN
          /\ verified'.returned =>
                /\ e \in DOMAIN users
                /\ users[e].exists
                /\ users[e].vr_code = Code(verified'.code)
                /\ utcnow <= users[e].vr_code_expires.value
                /\ users'[e].is_active
                /\ users'[e].vr_code = NoCode
                /\ users'[e].vr_code_expires = NoHour
          /\ AlreadyVerified => ~verified'.returned /\ users' = users
          /\ ~verified'.returned =>
                \A u \in DOMAIN users : users'[u].is_active = users[u].is_active ]_vars

\* C30 witness: after a successful verification the same code has been
\* supplied again for the same email and refused.
UsedCodeRefused ==
    /\ verified.calls >= 2
    /\ ~verified.returned
    /\ verified.email \in DOMAIN users
    /\ users[verified.email].is_active
    /\ verified.code \in Codes


====
